---- MODULE Spec2Model ----
(***************************************************************************)
(* Model of the pair-tracking engine of Leaper: the `Pairs` container      *)
(* (one per cursor), the position-delta algorithm it applies on content    *)
(* changes, the cursor-exit filter it applies on selection changes, and    *)
(* the tracker that fans editor events out to the containers.              *)
(***************************************************************************)
EXTENDS Integers, Sequences, FiniteSets, TLC

\* ------------------------------------------------------------------------
\* Bounds of the model.

\* Highest character index of a line of the modelled document.
MaxChar == 3
\* Number of Pair objects that may be constructed in one behaviour.
MaxPairsCreated == 2
\* Highest line index and line length of the documents on which the
\* position-delta algorithm is run on its own.
DocLastLine == 1
DocLineLength == 2

\* ------------------------------------------------------------------------
\* Positions (vscode.Position) and their comparisons.

Pos(l, c) == [line |-> l, character |-> c]

\* The positions of the first line of the document: the model tracks pairs on
\* that line.
Positions == { Pos(0, c) : c \in 0..MaxChar }

\* Positions at which a cursor can stand: the positions above and the start
\* of the second line.
CursorPositions == Positions \cup { Pos(1, c) : c \in 0..1 }

isBefore(a, b) ==
    \/ a.line < b.line
    \/ a.line = b.line /\ a.character < b.character

isBeforeOrEqual(a, b) == isBefore(a, b) \/ a = b

isAfter(a, b) == isBefore(b, a)

\* An isAfterOrEqual that does not hold of equal positions.
isAfterOrEqual_strict(a, b) == isAfter(a, b)

isAfterOrEqual(a, b) == ~ isBefore(a, b)

\* The value `undefined` that getNewPos returns for an overwritten position.
Undefined == [line |-> -1, character |-> -1]

\* ------------------------------------------------------------------------
\* Text of a content change: a sequence of UTF-16 code units.

NL == "\n"

\* text.split('\n').length - 1
RECURSIVE splitDeltaLines(_)
splitDeltaLines(text) ==
    IF text = <<>> THEN 0
    ELSE (IF Head(text) = NL THEN 1 ELSE 0) + splitDeltaLines(Tail(text))

\* splitText[splitText.length - 1].length
RECURSIVE splitLastLineLength(_)
splitLastLineLength(text) ==
    IF text = <<>> THEN 0
    ELSE IF text[Len(text)] = NL THEN 0
    ELSE 1 + splitLastLineLength(SubSeq(text, 1, Len(text) - 1))

\* new Range(a, b): vscode orders the two ends.
Range(a, b) ==
    IF isBeforeOrEqual(a, b) THEN [start |-> a, end |-> b]
    ELSE [start |-> b, end |-> a]

isEmptyRange(range) == range.start = range.end

isSingleLine(range) == range.start.line = range.end.line

\* A getEndPos that adds the start character to the length of the last line
\* of a text of several lines too.
getEndPos_textOfOneLine(startPos, text) ==
    Pos(startPos.line + splitDeltaLines(text),
        splitLastLineLength(text) + startPos.character)

\* getEndPos(startPos, arg) for a string argument.
getEndPosOfText(startPos, text) ==
    LET argLastLineLength == splitLastLineLength(text)
        deltaLines        == splitDeltaLines(text)
    IN  Pos(startPos.line + deltaLines,
            argLastLineLength + (IF deltaLines > 0 THEN 0 ELSE startPos.character))

\* A getEndPos that takes every range for a range of one line.
getEndPos_rangeOfOneLine(startPos, arg) ==
    LET argLastLineLength == arg.end.character - arg.start.character
        deltaLines == arg.end.line - arg.start.line
    IN  Pos(startPos.line + deltaLines,
            argLastLineLength + (IF deltaLines > 0 THEN 0 ELSE startPos.character))

\* getEndPos(startPos, arg) for a Range argument.
getEndPosOfRange(startPos, arg) ==
    LET argLastLineLength ==
            arg.end.character - (IF isSingleLine(arg) THEN arg.start.character ELSE 0)
        deltaLines == arg.end.line - arg.start.line
    IN  Pos(startPos.line + deltaLines,
            argLastLineLength + (IF deltaLines > 0 THEN 0 ELSE startPos.character))

\* A getNewPos that leaves a position in place when text is inserted at it.
getNewPos_insertionPointStays(pos, contentChange) ==
    IF isAfterOrEqual(pos, contentChange.range.start)
         /\ isBefore(pos, contentChange.range.end)
    THEN Undefined
    ELSE IF isBeforeOrEqual(pos, contentChange.range.start)
              /\ isEmptyRange(contentChange.range)
    THEN pos
    ELSE IF isBefore(pos, contentChange.range.start)
    THEN pos
    ELSE getEndPosOfRange(getEndPosOfText(contentChange.range.start, contentChange.text),
                          Range(contentChange.range.end, pos))

\* A getNewPos that takes the start of the range for kept.
getNewPos_startKept(pos, contentChange) ==
    IF isAfter(pos, contentChange.range.start)
         /\ isBefore(pos, contentChange.range.end)
    THEN Undefined
    ELSE IF isBeforeOrEqual(pos, contentChange.range.start)
    THEN pos
    ELSE getEndPosOfRange(getEndPosOfText(contentChange.range.start, contentChange.text),
                          Range(contentChange.range.end, pos))

\* A getNewPos that takes the end of the range for overwritten.
getNewPos_endOverwritten(pos, contentChange) ==
    IF isAfterOrEqual(pos, contentChange.range.start)
         /\ isBeforeOrEqual(pos, contentChange.range.end)
    THEN Undefined
    ELSE IF isBefore(pos, contentChange.range.start)
    THEN pos
    ELSE getEndPosOfRange(getEndPosOfText(contentChange.range.start, contentChange.text),
                          Range(contentChange.range.end, pos))

\* New position of `pos` after one content change, or Undefined if overwritten.
getNewPos(pos, contentChange) ==
    IF isAfterOrEqual(pos, contentChange.range.start)
         /\ isBefore(pos, contentChange.range.end)
    THEN Undefined
    ELSE IF isBefore(pos, contentChange.range.start)
    THEN pos
    ELSE LET gapRange   == Range(contentChange.range.end, pos)
             textEndPos == getEndPosOfText(contentChange.range.start, contentChange.text)
         IN  getEndPosOfRange(textEndPos, gapRange)

\* A loop that gives up a position when there is no change left to apply.
RECURSIVE applyToPos_nothingLeft(_, _)
applyToPos_nothingLeft(pos, contentChanges) ==
    IF contentChanges = <<>> THEN Undefined
    ELSE LET newPos == getNewPos(pos, Head(contentChanges))
         IN  IF newPos = Undefined \/ Len(contentChanges) = 1 THEN newPos
             ELSE applyToPos_nothingLeft(newPos, Tail(contentChanges))

\* The loop of applyContentChanges over the content changes, for one position:
\* the changes are applied in the order of the list, until one overwrites the
\* position.
RECURSIVE applyToPos(_, _)
applyToPos(pos, contentChanges) ==
    IF contentChanges = <<>> THEN pos
    ELSE LET newPos == getNewPos(pos, Head(contentChanges))
         IN  IF newPos = Undefined THEN Undefined
             ELSE applyToPos(newPos, Tail(contentChanges))

\* ------------------------------------------------------------------------
\* Pair: { id, open, close, isDecorated }.  `id` is the identity of the object.

\* An enclosesPos that excludes both sides of the pair.
enclosesPos_bothSidesExclusive(pair, pos) ==
    isAfter(pos, pair.open) /\ isBefore(pos, pair.close)

\* Pair.enclosesPos: the cursor-exit tests fix its behaviour, open side
\* exclusive and close side inclusive.
enclosesPos(pair, pos) ==
    isAfter(pos, pair.open) /\ isBeforeOrEqual(pos, pair.close)

\* Pair.decorate / Pair.undecorate
decorate(pair) == [pair EXCEPT !.isDecorated = TRUE]

undecorate(pair) == [pair EXCEPT !.isDecorated = FALSE]

\* range.start.translate({ characterDelta: 1 })
translateChar(pos, characterDelta) == Pos(pos.line, pos.character + characterDelta)

\* ------------------------------------------------------------------------
\* Free functions of the Pairs module.

\* An inner loop that does not compare the lines of the two sides.
RECURSIVE applyToPair_linesNotCompared(_, _)
applyToPair_linesNotCompared(pair, contentChanges) ==
    IF contentChanges = <<>> THEN [pair |-> pair, ok |-> TRUE]
    ELSE LET newOpen  == getNewPos(pair.open,  Head(contentChanges))
             newClose == getNewPos(pair.close, Head(contentChanges))
         IN  IF newOpen = Undefined \/ newClose = Undefined
             THEN [pair |-> pair, ok |-> FALSE]
             ELSE applyToPair_linesNotCompared(
                      [pair EXCEPT !.open = newOpen, !.close = newClose],
                      Tail(contentChanges))

\* The inner loop of applyContentChanges for one pair: the pair object is
\* mutated change by change and given up at the first change that deletes a
\* side or separates the sides onto two lines.
RECURSIVE applyToPair(_, _)
applyToPair(pair, contentChanges) ==
    IF contentChanges = <<>> THEN [pair |-> pair, ok |-> TRUE]
    ELSE LET newOpen  == getNewPos(pair.open,  Head(contentChanges))
             newClose == getNewPos(pair.close, Head(contentChanges))
         IN  IF newOpen = Undefined \/ newClose = Undefined
                  \/ newOpen.line # newClose.line
             THEN [pair |-> pair, ok |-> FALSE]
             ELSE applyToPair([pair EXCEPT !.open = newOpen, !.close = newClose],
                              Tail(contentChanges))

\* An applyContentChanges that leaves its outer loop at the first pair it
\* removes, the pairs after it being removed with it.
applyContentChanges_leavesLoop(pairs, contentChanges) ==
    LET ok(j)   == applyToPair(pairs[j], contentChanges).ok
        stopAt  == IF \A j \in DOMAIN pairs : ok(j) THEN Len(pairs) + 1
                   ELSE CHOOSE j \in DOMAIN pairs : ~ ok(j) /\ \A k \in 1..(j - 1) : ok(k)
    IN  [updated |-> [j \in 1..(stopAt - 1) |-> applyToPair(pairs[j], contentChanges).pair],
         removed |-> SubSeq(pairs, stopAt, Len(pairs))]

RECURSIVE applyContentChanges(_, _)
applyContentChanges(pairs, contentChanges) ==
    IF pairs = <<>> THEN [updated |-> <<>>, removed |-> <<>>]
    ELSE LET r    == applyToPair(Head(pairs), contentChanges)
             rest == applyContentChanges(Tail(pairs), contentChanges)
         IN  IF r.ok
             THEN [updated |-> <<r.pair>> \o rest.updated, removed |-> rest.removed]
             ELSE [updated |-> rest.updated, removed |-> <<r.pair>> \o rest.removed]

\* const { range, text } = contentChanges[0]: with no change in the list the
\* right-hand side is undefined and the destructuring throws a TypeError.
getNewPairThrows(contentChanges) == Len(contentChanges) < 1

\* A getNewPair that puts the close side where the open side is.
getNewPair_closeAtOpen(contentChanges, settings, id) ==
    LET range == contentChanges[1].range
        text  == contentChanges[1].text
    IN  IF Len(text) = 2 /\ isEmptyRange(range) /\ text \in settings.languageRule
        THEN << [id          |-> id,
                 open        |-> range.start,
                 close       |-> range.start,
                 isDecorated |-> FALSE] >>
        ELSE <<>>

\* The pair (a sequence of none or one) that the content changes introduce.
getNewPair(contentChanges, settings, id) ==
    LET range == contentChanges[1].range
        text  == contentChanges[1].text
    IN  IF Len(text) = 2 /\ isEmptyRange(range) /\ text \in settings.languageRule
        THEN << [id          |-> id,
                 open        |-> range.start,
                 close       |-> translateChar(range.start, 1),
                 isDecorated |-> FALSE] >>
        ELSE <<>>

\* A removeEscapedPairs that keeps the pairs whose open side is at the cursor.
removeEscapedPairs_openInclusive(pairs, cursorPos) ==
    [retained |-> SelectSeq(pairs, LAMBDA pair :
                      enclosesPos(pair, cursorPos) \/ pair.open = cursorPos),
     removed  |-> SelectSeq(pairs, LAMBDA pair :
                      ~ (enclosesPos(pair, cursorPos) \/ pair.open = cursorPos))]

\* A removeEscapedPairs that takes every pair for enclosing the cursor.
removeEscapedPairs_allRetained(pairs, cursorPos) ==
    [retained |-> pairs, removed |-> <<>>]

\* A removeEscapedPairs that hands back its two lists the other way round.
removeEscapedPairs_listsSwapped(pairs, cursorPos) ==
    [retained |-> SelectSeq(pairs, LAMBDA pair : ~ enclosesPos(pair, cursorPos)),
     removed  |-> SelectSeq(pairs, LAMBDA pair : enclosesPos(pair, cursorPos))]

removeEscapedPairs(pairs, cursorPos) ==
    [retained |-> SelectSeq(pairs, LAMBDA pair : enclosesPos(pair, cursorPos)),
     removed  |-> SelectSeq(pairs, LAMBDA pair : ~ enclosesPos(pair, cursorPos))]

removeDecorations(pairs) == [i \in DOMAIN pairs |-> undecorate(pairs[i])]

\* A reapplyDecorations that does not undecorate the pairs first.
reapplyDecorations_oldKept(pairs, decorateOnlyNearestPair) ==
    IF Len(pairs) < 1 THEN pairs
    ELSE IF decorateOnlyNearestPair
    THEN [i \in DOMAIN pairs |->
            IF i = Len(pairs) THEN decorate(pairs[i]) ELSE pairs[i]]
    ELSE [i \in DOMAIN pairs |-> decorate(pairs[i])]

reapplyDecorations(pairs, decorateOnlyNearestPair) ==
    IF Len(pairs) < 1 THEN pairs
    ELSE IF decorateOnlyNearestPair
    THEN [i \in DOMAIN pairs |->
            IF i = Len(pairs) THEN decorate(pairs[i]) ELSE undecorate(pairs[i])]
    ELSE [i \in DOMAIN pairs |-> decorate(pairs[i])]

\* ------------------------------------------------------------------------
\* class Pairs: { data, recentlyRemovedDueToCursorMove }.

NewPairs == [data |-> <<>>, recentlyRemovedDueToCursorMove |-> <<>>]

\* An isEmpty that also looks at the pairs awaiting rescue.
isEmpty_bufferCounted(self) ==
    Len(self.data) < 1 /\ Len(self.recentlyRemovedDueToCursorMove) < 1

isEmpty(self) == Len(self.data) < 1

mostNested(self) == self.data[Len(self.data)]

\* An updateGivenContentChanges that does not put the recovered pairs back.
updateGivenContentChanges_noRecovery(self, contentChanges, cursorPos, settings, id) ==
    LET updated == applyContentChanges(self.data, contentChanges).updated
        newPair == getNewPair(contentChanges, settings, id)
    IN  [data |-> reapplyDecorations(updated \o newPair,
                                     settings.decorateOnlyNearestPair),
         recentlyRemovedDueToCursorMove |-> <<>>]

\* An updateGivenContentChanges that does not empty the list of the pairs
\* awaiting rescue.
updateGivenContentChanges_bufferKept(self, contentChanges, cursorPos, settings, id) ==
    LET pending   == applyContentChanges(self.recentlyRemovedDueToCursorMove,
                                         contentChanges).updated
        recovered == SelectSeq(pending, LAMBDA pair : enclosesPos(pair, cursorPos))
        updated   == applyContentChanges(self.data, contentChanges).updated
        newPair   == getNewPair(contentChanges, settings, id)
    IN  [data |-> reapplyDecorations(updated \o recovered \o newPair,
                                     settings.decorateOnlyNearestPair),
         recentlyRemovedDueToCursorMove |->
             SelectSeq(pending, LAMBDA pair : ~ enclosesPos(pair, cursorPos))]

\* Pairs.updateGivenContentChanges.  With an empty list of changes the call of
\* getNewPair throws and the method is left there: the rescue buffer has been
\* emptied and the recovered pairs put back, the decorations have not been
\* reapplied.
updateGivenContentChanges(self, contentChanges, cursorPos, settings, id) ==
    LET pending   == applyContentChanges(self.recentlyRemovedDueToCursorMove,
                                         contentChanges).updated
        recovered == SelectSeq(pending, LAMBDA pair : enclosesPos(pair, cursorPos))
        updated   == applyContentChanges(self.data, contentChanges).updated
        newPair   == getNewPair(contentChanges, settings, id)
    IN  IF getNewPairThrows(contentChanges)
        THEN [data |-> updated \o recovered,
              recentlyRemovedDueToCursorMove |-> <<>>]
        ELSE [data |-> reapplyDecorations(updated \o recovered \o newPair,
                                          settings.decorateOnlyNearestPair),
              recentlyRemovedDueToCursorMove |-> <<>>]

\* A content-change update that leaves the pairs it removes as they were.
releasedByContentChanges_decorationsKept(self, contentChanges) ==
    applyContentChanges(self.data, contentChanges).removed

\* The pairs that updateGivenContentChanges takes out of the active list, as
\* they are when the method is left: handed to removeDecorations, unless
\* getNewPair has thrown before.
releasedByContentChanges(self, contentChanges) ==
    LET removed == applyContentChanges(self.data, contentChanges).removed
    IN  IF getNewPairThrows(contentChanges) THEN removed
        ELSE removeDecorations(removed)

\* An updateGivenCursorChanges that forgets the pairs it removes.
updateGivenCursorChanges_removedForgotten(self, cursorPos, settings) ==
    LET r == removeEscapedPairs(self.data, cursorPos)
    IN  [data |-> IF Len(r.removed) > 0
                  THEN reapplyDecorations(r.retained, settings.decorateOnlyNearestPair)
                  ELSE r.retained,
         recentlyRemovedDueToCursorMove |-> <<>>]

\* An updateGivenCursorChanges that adds the pairs it removes to those
\* already awaiting rescue.
updateGivenCursorChanges_bufferAppended(self, cursorPos, settings) ==
    LET r == removeEscapedPairs(self.data, cursorPos)
    IN  [data |-> IF Len(r.removed) > 0
                  THEN reapplyDecorations(r.retained, settings.decorateOnlyNearestPair)
                  ELSE r.retained,
         recentlyRemovedDueToCursorMove |->
                  self.recentlyRemovedDueToCursorMove \o removeDecorations(r.removed)]

updateGivenCursorChanges(self, cursorPos, settings) ==
    LET r == removeEscapedPairs(self.data, cursorPos)
    IN  [data |-> IF Len(r.removed) > 0
                  THEN reapplyDecorations(r.retained, settings.decorateOnlyNearestPair)
                  ELSE r.retained,
         recentlyRemovedDueToCursorMove |->
                  IF Len(r.removed) > 0 THEN removeDecorations(r.removed)
                  ELSE r.removed]

\* The pairs that clear hands to Pair.undecorate, as they are after the call.
clearUndecorated(self) == removeDecorations(self.data)

\* A clear that undecorates the pairs and keeps them.
clear_pairsKept(self) ==
    [data |-> removeDecorations(self.data), recentlyRemovedDueToCursorMove |-> <<>>]

\* A clear that leaves the rescue buffer as it is.
clear_bufferKept(self) ==
    [data |-> <<>>,
     recentlyRemovedDueToCursorMove |-> self.recentlyRemovedDueToCursorMove]

clear(self) == [data |-> <<>>, recentlyRemovedDueToCursorMove |-> <<>>]

\* ------------------------------------------------------------------------
\* Inputs of the model: settings snapshots, content changes, cursors.

ParenPair == << "(", ")" >>

BracketPair == << "[", "]" >>

\* Effective settings an editor may have.
SettingsValues ==
    { [languageRule |-> { ParenPair },              decorateOnlyNearestPair |-> TRUE],
      [languageRule |-> { ParenPair, BracketPair }, decorateOnlyNearestPair |-> FALSE] }

\* Inserted texts of the content changes.
Texts == { <<>>, << "a" >>, ParenPair, BracketPair, << NL >> }

Change(s, e, t) == [range |-> [start |-> s, end |-> e], text |-> t]

\* Insertions of a text at a point.
Insertions == { Change(p, p, t) : p \in Positions, t \in Texts \ { <<>> } }

\* Deletions of one character of the first line, and of the text from a point
\* of the first line to a point of the second line.
Deletions ==
    { Change(p, translateChar(p, 1), <<>>) :
        p \in { q \in Positions : q.character < MaxChar } }
      \cup { Change(Pos(0, 1), Pos(1, c), <<>>) : c \in 0..1 }

\* One content change: replaces [start, end) by text.
SingleChanges == Insertions \cup Deletions

\* Changes of the batches that carry two changes: insertions of a pair or of
\* a letter on the first line.
MultiChanges ==
    { c \in Insertions : c.range.start.line = 0 /\ c.text \in { ParenPair, << "a" >> } }

\* The host lists the changes of one event from the end of the document to
\* its start, none overlapping another; the events of two changes insert one
\* text at two points.
ContentChangeBatches ==
    { << c >> : c \in SingleChanges }
        \cup { b \in { << c1, c2 >> : c1 \in MultiChanges, c2 \in MultiChanges } :
                 /\ isBefore(b[2].range.start, b[1].range.start)
                 /\ b[1].text = b[2].text }

\* The cursors of an editor: one anywhere, or two on the first line, the
\* primary one first in the document.
CursorLists ==
    { << c >> : c \in CursorPositions }
        \cup { l \in { << c1, c2 >> : c1 \in CursorPositions, c2 \in CursorPositions } :
                 l[1].line = 0 /\ l[2].line = 0 /\ isBefore(l[1], l[2]) }

\* Text between the cursor and the close of the most nested pair.
TextsInBetween ==
    { <<>>, << " " >>, << NL >>, << "a" >>, << " ", "a" >>, << "a", " " >> }

\* ------------------------------------------------------------------------
\* State.

VARIABLES
    cursors,    \* editor.selections[i].active, primary cursor first
    clusters,   \* the tracker's Pairs containers, one per cursor
    settings,   \* the settings snapshot shared by the containers
    nextId,     \* identity given to the next constructed Pair
    last,       \* the event handled last: its kind, per content change the
                \* point at which it inserted a trigger pair, the pairs
                \* awaiting rescue that it moved around the cursor, the pairs
                \* it constructed, and for a leap command whether text other
                \* than whitespace stood between the cursor and the close of
                \* the most nested pair, for an escape the number of pairs
                \* it undecorated, and for a content change and a selection
                \* change the number of pairs that awaited rescue when it
                \* came (for an escape too), for a content change that
                \* follows an escape the number of pairs that the escape
                \* found in the lists and in the rescue buffers, and the
                \* number of pairs an event took out of the active
                \* lists with the number of those it left decorated
    delta,      \* input and output of one run of the position-delta algorithm
    engine      \* the Engine with the window it listens to: the visible and
                \* the active text editor, Engine.trackers with the state
                \* of each Tracker, Engine.activeTracker, and a digest of
                \* the event handled last

vars == << cursors, clusters, settings, nextId, last, delta, engine >>

\* The value of engine where no Engine is run.
NoEngine == [stage |-> "unused"]

\* Identities of the pairs of a list.
Ids(pairs) == { pairs[j].id : j \in DOMAIN pairs }

\* Identities of the pairs in the active lists, and in the rescue buffers.
ActiveIds(cs) == UNION { Ids(cs[i].data) : i \in DOMAIN cs }

PendingIds(cs) == UNION { Ids(cs[i].recentlyRemovedDueToCursorMove) : i \in DOMAIN cs }

\* The identity and the two positions of each pair of a list, decoration
\* flags left out.
Sides(pairs) ==
    [j \in DOMAIN pairs |->
        [id |-> pairs[j].id, open |-> pairs[j].open, close |-> pairs[j].close]]

\* A change that inserts, at a point, a two-unit text that is a trigger pair.
Qualifies(change) ==
    /\ change.range.start = change.range.end
    /\ Len(change.text) = 2
    /\ change.text \in settings.languageRule

\* Per change of a batch, the point at which it inserts a trigger pair, or
\* Undefined if it does no such thing.
TriggerPoints(contentChanges) ==
    [k \in DOMAIN contentChanges |->
        IF Qualifies(contentChanges[k]) THEN contentChanges[k].range.start
        ELSE Undefined]

\* The pairs awaiting rescue that the content changes of an event neither
\* delete nor split over two lines and move around the cursor of their
\* cluster, at the positions the content changes give them.
ShiftedPending(contentChanges) ==
    IF contentChanges = <<>> THEN {}
    ELSE UNION { { Sides(<< r.pair >>)[1] :
                     r \in { q \in { applyToPair(clusters[i].recentlyRemovedDueToCursorMove[j],
                                                 contentChanges) :
                                        j \in DOMAIN clusters[i].recentlyRemovedDueToCursorMove } :
                                q.ok /\ enclosesPos(q.pair, cursors[i]) } } :
                 i \in DOMAIN clusters }

\* The pairs of a list, as a set.
Members(pairs) == { pairs[j] : j \in DOMAIN pairs }

\* The pairs that an event has taken out of the active lists, as they are
\* when its handler is left: for a content change those that the changes
\* deleted or split, for a selection change with as many cursors as before
\* those put into the rescue buffers, for an escape and a configuration
\* change those that clear has dropped.
Released(op, contentChanges, after) ==
    IF op = "content"
    THEN UNION { Members(releasedByContentChanges(clusters[i], contentChanges)) :
                    i \in DOMAIN clusters }
    ELSE IF op = "selection" /\ Len(after) = Len(clusters)
    THEN UNION { Members(after[i].recentlyRemovedDueToCursorMove) : i \in DOMAIN after }
    ELSE IF op \in { "escape", "configuration" }
    THEN UNION { Members(clearUndecorated(clusters[i])) : i \in DOMAIN clusters }
    ELSE {}

Event(op, contentChanges, after) ==
    [op            |-> op,
     triggerPoints |-> TriggerPoints(contentChanges),
     pending       |-> ShiftedPending(contentChanges),
     created       |-> ActiveIds(after) \ (1..(nextId - 1)),
     blocked       |-> FALSE,
     undecorated   |-> 0,
     buffered      |-> IF op \in { "content", "selection", "escape" }
                       THEN Cardinality(PendingIds(clusters)) ELSE 0,
     escaped       |-> IF op = "content" /\ last.op = "escape"
                       THEN last.undecorated + last.buffered ELSE 0,
     released      |-> Cardinality(Released(op, contentChanges, after)),
     leftDecorated |-> Cardinality({ pair \in Released(op, contentChanges, after) :
                                        pair.isDecorated })]

Init ==
    /\ cursors  = << Pos(0, 0) >>
    /\ clusters = << NewPairs >>
    /\ settings \in SettingsValues
    /\ nextId   = 1
    /\ last     = [op |-> "init", triggerPoints |-> <<>>, pending |-> {},
                   created |-> {}, blocked |-> FALSE,
                   undecorated |-> 0, buffered |-> 0, escaped |-> 0,
                   released |-> 0, leftDecorated |-> 0]
    /\ engine   = NoEngine
    /\ delta    = [stage |-> "unused"]

\* Every position of every pair lies in the modelled document.
InExtent(cs) ==
    \A i \in DOMAIN cs :
        \A j \in DOMAIN cs[i].data :
            /\ cs[i].data[j].open  \in Positions
            /\ cs[i].data[j].close \in Positions

\* ------------------------------------------------------------------------
\* Tracker: event handlers.

\* Content-change event: every cluster is updated with the batch and with the
\* cursor it belongs to.
Tracker_onContentChange(cs, curs, contentChanges, st, id) ==
    [i \in DOMAIN cs |->
        updateGivenContentChanges(cs[i], contentChanges, curs[i], st, id + i - 1)]

ContentChange ==
    \E contentChanges \in ContentChangeBatches :
        /\ clusters' = Tracker_onContentChange(clusters, cursors, contentChanges,
                                            settings, nextId)
        /\ InExtent(clusters')
        /\ last'     = Event("content", contentChanges, clusters')
        /\ nextId'   = nextId + Cardinality(last'.created)
        /\ nextId'  <= MaxPairsCreated + 1
        /\ UNCHANGED << cursors, settings, delta, engine >>

\* Selection-change event: with an unchanged cursor count each cluster is
\* updated with its cursor; otherwise the clusters are resynchronized, an empty
\* cluster per cursor.
Tracker_onSelectionChange(cs, newCursors, st) ==
    IF Len(newCursors) = Len(cs)
    THEN [i \in DOMAIN cs |-> updateGivenCursorChanges(cs[i], newCursors[i], st)]
    ELSE [i \in DOMAIN newCursors |-> NewPairs]

SelectionChange ==
    \E newCursors \in CursorLists :
        /\ newCursors # cursors
        /\ cursors'  = newCursors
        /\ clusters' = Tracker_onSelectionChange(clusters, newCursors, settings)
        /\ last'     = Event("selection", <<>>, clusters')
        /\ UNCHANGED << settings, nextId, delta, engine >>

\* Units that String.prototype.trim takes off the two ends of a text.
WhiteSpace == { " ", NL }

\* A trim that takes off spaces only.
RECURSIVE trim_spacesOnly(_)
trim_spacesOnly(text) ==
    IF text = <<>> THEN text
    ELSE IF Head(text) = " " THEN trim_spacesOnly(Tail(text))
    ELSE IF text[Len(text)] = " " THEN trim_spacesOnly(SubSeq(text, 1, Len(text) - 1))
    ELSE text

\* textInBetween.trim()
RECURSIVE trim(_)
trim(text) ==
    IF text = <<>> THEN text
    ELSE IF Head(text) \in WhiteSpace THEN trim(Tail(text))
    ELSE IF text[Len(text)] \in WhiteSpace THEN trim(SubSeq(text, 1, Len(text) - 1))
    ELSE text

\* A hasLineOfSight that does not look at the text in between.
hasLineOfSight_textNotRead(self, textInBetween) == Len(self.data) >= 1

\* Pairs.hasLineOfSight, given the text the document holds between the cursor
\* and the close of the most nested pair.
hasLineOfSight(self, textInBetween) ==
    IF Len(self.data) < 1 THEN FALSE
    ELSE Len(trim(textInBetween)) = 0

\* The texts the document can hold between the primary cursor and the close of
\* the most nested pair of its cluster: none iff the two coincide.
TextsInBetweenOf(self, cursorPos) ==
    IF Len(self.data) < 1 THEN TextsInBetween
    ELSE { t \in TextsInBetween : (t = <<>>) <=> (cursorPos = mostNested(self).close) }

\* Text other than whitespace stands between the cursor and the close of the
\* most nested pair.
Blocked(self, textInBetween) ==
    /\ ~ isEmpty(self)
    /\ \E k \in DOMAIN textInBetween : textInBetween[k] \notin { " ", NL }

\* A leap that gives up the outermost pair of the cluster.
Tracker_leap_outermostPopped(cs, st) ==
    [cs EXCEPT ![1] =
        [data |-> reapplyDecorations(Tail(cs[1].data), st.decorateOnlyNearestPair),
         recentlyRemovedDueToCursorMove |-> cs[1].recentlyRemovedDueToCursorMove]]

\* Tracker.leap: the cluster of the primary cursor gives up its most nested
\* pair and the cursor is put just past that pair's close.
Tracker_leap(cs, st) ==
    [cs EXCEPT ![1] =
        [data |-> reapplyDecorations(SubSeq(cs[1].data, 1, Len(cs[1].data) - 1),
                                     st.decorateOnlyNearestPair),
         recentlyRemovedDueToCursorMove |-> cs[1].recentlyRemovedDueToCursorMove]]

\* The leap command with an active tracker whose primary cluster has line of
\* sight.
Leap ==
    \E textInBetween \in TextsInBetweenOf(clusters[1], cursors[1]) :
        /\ hasLineOfSight(clusters[1], textInBetween)
        /\ [cursors EXCEPT ![1] = translateChar(mostNested(clusters[1]).close, 1)]
               \in CursorLists
        /\ cursors'  = [cursors EXCEPT ![1] = translateChar(mostNested(clusters[1]).close, 1)]
        /\ clusters' = Tracker_leap(clusters, settings)
        /\ last'     = [Event("leap", <<>>, clusters') EXCEPT
                            !.blocked = Blocked(clusters[1], textInBetween)]
        /\ UNCHANGED << settings, nextId, delta, engine >>

\* The leap command with an active tracker whose primary cluster has no line
\* of sight: the key goes to the editor's default binding.
LeapFallsThrough ==
    \E textInBetween \in TextsInBetweenOf(clusters[1], cursors[1]) :
        /\ ~ hasLineOfSight(clusters[1], textInBetween)
        /\ last' = [Event("leapFallsThrough", <<>>, clusters) EXCEPT
                        !.blocked = Blocked(clusters[1], textInBetween)]
        /\ UNCHANGED << cursors, clusters, settings, nextId, delta, engine >>

\* Tracker.escapeLeaperMode: every cluster is cleared.
Tracker_escapeLeaperMode(cs) == [i \in DOMAIN cs |-> clear(cs[i])]

\* Number of Pair.undecorate calls that clearing every cluster makes.
RECURSIVE UndecorateCalls(_)
UndecorateCalls(cs) ==
    IF cs = <<>> THEN 0
    ELSE Len(clearUndecorated(Head(cs))) + UndecorateCalls(Tail(cs))

EscapeLeaperMode ==
    /\ clusters' = Tracker_escapeLeaperMode(clusters)
    /\ last'     = [Event("escape", <<>>, clusters') EXCEPT
                        !.undecorated = UndecorateCalls(clusters)]
    /\ UNCHANGED << cursors, settings, nextId, delta, engine >>

\* Configuration change: when the effective value differs, every cluster is
\* cleared before the new snapshot is adopted.
ConfigurationChange ==
    \E newSettings \in SettingsValues :
        /\ newSettings # settings
        /\ clusters' = Tracker_escapeLeaperMode(clusters)
        /\ settings' = newSettings
        /\ last'     = [Event("configuration", <<>>, clusters') EXCEPT
                            !.undecorated = UndecorateCalls(clusters)]
        /\ UNCHANGED << cursors, nextId, delta, engine >>

Next ==
    \/ ContentChange
    \/ SelectionChange
    \/ Leap
    \/ LeapFallsThrough
    \/ EscapeLeaperMode
    \/ ConfigurationChange

Spec == Init /\ [][Next]_vars

TypeOK ==
    /\ cursors \in CursorLists
    /\ Len(clusters) = Len(cursors)
    /\ settings \in SettingsValues
    /\ nextId \in 1..(MaxPairsCreated + 1)
    /\ InExtent(clusters)

\* ------------------------------------------------------------------------
\* The position-delta algorithm run on its own, against the document.

\* The document has lines 0..DocLastLine of DocLineLength characters each.  A
\* position is the place of a character or of the end of a line.
DeltaPositions == { Pos(l, c) : l \in 0..DocLastLine, c \in 0..DocLineLength }

DeltaTexts == { <<>>, << "a" >>, << NL >>, << NL, "a" >> }

DeltaChanges ==
    { c \in { Change(p, q, t) : p \in DeltaPositions, q \in DeltaPositions,
                                  t \in DeltaTexts } :
        /\ isBeforeOrEqual(c.range.start, c.range.end)
        /\ ~ (isEmptyRange(c.range) /\ c.text = <<>>) }

\* Two changes of one batch overlap nowhere and start at different points.
Disjoint(early, late) ==
    /\ isBeforeOrEqual(early.range.end, late.range.start)
    /\ isBefore(early.range.start, late.range.start)

\* The batch of no change, batches of one change, and of two changes listed
\* from the end of the document to its start (descending) or from its start
\* to its end (ascending).
DeltaBatches ==
    { <<>> } \cup { << c >> : c \in DeltaChanges }
        \cup { b \in { << c1, c2 >> : c1 \in DeltaChanges, c2 \in DeltaChanges } :
                 Disjoint(b[1], b[2]) \/ Disjoint(b[2], b[1]) }

IsDescending(contentChanges) ==
    \A k \in 1..(Len(contentChanges) - 1) :
        Disjoint(contentChanges[k + 1], contentChanges[k])

\* The document as one sequence of units: unit n of the original document is
\* n itself, the end of a line being a unit too; inserted units are 0 (a
\* character) and -1 (a line break).
DocOffset(pos) == pos.line * (DocLineLength + 1) + pos.character + 1

Document == [n \in 1..((DocLastLine + 1) * (DocLineLength + 1)) |-> n]

IsLineBreak(unit) ==
    \/ unit = -1
    \/ unit > 0 /\ unit % (DocLineLength + 1) = 0
                /\ unit < (DocLastLine + 1) * (DocLineLength + 1)

InsertedUnits(text) == [k \in DOMAIN text |-> IF text[k] = NL THEN -1 ELSE 0]

\* The document after one change, whose range is given in the coordinates of
\* the original document and lies wholly in the part of it that is still
\* untouched at the front of `doc`.
EditDocument(doc, change) ==
    LET from == DocOffset(change.range.start)
        to   == DocOffset(change.range.end)
    IN  SubSeq(doc, 1, from - 1) \o InsertedUnits(change.text)
            \o SubSeq(doc, to, Len(doc))

\* The document after all the changes of a batch: the change nearest to the
\* end of the document is made first.
RECURSIVE EditedDocument(_, _)
EditedDocument(doc, changes) ==
    IF changes = {} THEN doc
    ELSE LET latest == CHOOSE c \in changes :
                          \A d \in changes : isBeforeOrEqual(d.range.start, c.range.start)
         IN  EditedDocument(EditDocument(doc, latest), changes \ { latest })

\* Where the unit that stood at `pos` stands in the edited document, or
\* Undefined if the document no longer holds it.
ImageInDocument(pos, contentChanges) ==
    LET doc  == EditedDocument(Document, { contentChanges[k] : k \in DOMAIN contentChanges })
        unit == DocOffset(pos)
    IN  IF \A n \in DOMAIN doc : doc[n] # unit THEN Undefined
        ELSE LET n      == CHOOSE m \in DOMAIN doc : doc[m] = unit
                 breaks == { m \in 1..(n - 1) : IsLineBreak(doc[m]) }
                 lineStart == IF breaks = {} THEN 0
                              ELSE CHOOSE m \in breaks : \A k \in breaks : k <= m
             IN  Pos(Cardinality(breaks), n - 1 - lineStart)

InitDelta ==
    /\ cursors  = << Pos(0, 0) >>
    /\ clusters = << NewPairs >>
    /\ settings \in { st \in SettingsValues : st.decorateOnlyNearestPair }
    /\ nextId   = 1
    /\ last     = [op |-> "init", triggerPoints |-> <<>>, pending |-> {},
                   created |-> {}, blocked |-> FALSE,
                   undecorated |-> 0, buffered |-> 0, escaped |-> 0,
                   released |-> 0, leftDecorated |-> 0]
    /\ engine   = NoEngine
    /\ delta    \in { [stage |-> "input", pos |-> p, contentChanges |-> b,
                       result |-> Undefined] :
                         p \in DeltaPositions, b \in DeltaBatches }

\* One run of the algorithm on the position and the batch.
DeltaApply ==
    /\ delta.stage = "input"
    /\ delta' = [delta EXCEPT !.stage  = "output",
                              !.result = applyToPos(delta.pos, delta.contentChanges)]
    /\ UNCHANGED << cursors, clusters, settings, nextId, last, engine >>

NextDelta == DeltaApply

SpecDelta == InitDelta /\ [][NextDelta]_vars

\* ------------------------------------------------------------------------
\* updateGivenContentChanges run on its own, on one container.

\* The document has lines 0..DocLastLine; pair sides stand at the characters
\* 0..MaxChar of a line.
PairsPositions == { Pos(l, c) : l \in 0..DocLastLine, c \in 0..MaxChar }

\* A tracked pair: both sides on one line, the open side first.
TrackedPairs(id) ==
    { pair \in { [id |-> id, open |-> o, close |-> c, isDecorated |-> FALSE] :
                   o \in PairsPositions, c \in PairsPositions } :
        pair.open.line = pair.close.line /\ isBefore(pair.open, pair.close) }

\* Contents of a container: one pair, or two pairs of one line with four
\* different sides, nested or side by side, in either order.
PairLists ==
    { << p1 >> : p1 \in TrackedPairs(1) }
        \cup { l \in { << p1, p2 >> : p1 \in TrackedPairs(1), p2 \in TrackedPairs(2) } :
                 /\ l[1].open.line = l[2].open.line
                 /\ Cardinality({ l[1].open, l[1].close, l[2].open, l[2].close }) = 4
                 /\ \/ isBefore(l[1].open, l[2].open) /\ isBefore(l[2].close, l[1].close)
                    \/ isBefore(l[2].open, l[1].open) /\ isBefore(l[1].close, l[2].close)
                    \/ isBefore(l[1].close, l[2].open)
                    \/ isBefore(l[2].close, l[1].open) }

PairsTexts == { <<>>, << "a" >>, ParenPair, << NL >>, << NL, "a" >> }

\* One change: any range of the document replaced by one of the texts.
PairsChanges ==
    { c \in { Change(p, q, t) : p \in PairsPositions, q \in PairsPositions,
                                  t \in PairsTexts } :
        /\ isBeforeOrEqual(c.range.start, c.range.end)
        /\ ~ (isEmptyRange(c.range) /\ c.text = <<>>) }

\* Batches of one change, and of two insertions of one text at two points,
\* listed from the end of the document to its start.
PairsBatches ==
    { << c >> : c \in PairsChanges }
        \cup UNION { { b \in { << Change(p1, p1, t), Change(p2, p2, t) >> :
                                p1 \in PairsPositions, p2 \in PairsPositions } :
                          isBefore(b[2].range.start, b[1].range.start) } :
                      t \in { << "a" >>, << NL >> } }

InitPairs ==
    /\ cursors  = << Pos(0, 0) >>
    /\ clusters = << NewPairs >>
    /\ settings \in { st \in SettingsValues : st.decorateOnlyNearestPair }
    /\ nextId   = 1
    /\ last     = [op |-> "init", triggerPoints |-> <<>>, pending |-> {},
                   created |-> {}, blocked |-> FALSE,
                   undecorated |-> 0, buffered |-> 0, escaped |-> 0,
                   released |-> 0, leftDecorated |-> 0]
    /\ engine   = NoEngine
    /\ delta    \in { [stage |-> "input",
                       self  |-> [data |-> l, recentlyRemovedDueToCursorMove |-> <<>>],
                       contentChanges |-> b,
                       result |-> NewPairs] :
                         l \in PairLists, b \in PairsBatches }

\* One call of updateGivenContentChanges on the container, the cursor being
\* at the start of the document; the pair it may construct gets identity 3.
PairsApply ==
    /\ delta.stage = "input"
    /\ delta' = [delta EXCEPT !.stage  = "output",
                              !.result = updateGivenContentChanges(
                                             delta.self, delta.contentChanges,
                                             Pos(0, 0), settings, 3)]
    /\ UNCHANGED << cursors, clusters, settings, nextId, last, engine >>

NextPairs == PairsApply

SpecPairs == InitPairs /\ [][NextPairs]_vars

\* ------------------------------------------------------------------------
\* The engine's leap command run on a tracker in any state it can be handed:
\* per cursor a nest of pairs around the cursor, the nests of two cursors
\* apart from each other, and a rescue buffer for the primary cursor.

LeapPairs(id) ==
    { pair \in { [id |-> id, open |-> o, close |-> c, isDecorated |-> FALSE] :
                   o \in Positions, c \in Positions } :
        isBefore(pair.open, pair.close) }

LeapNests(cursorPos, firstId) ==
    { <<>> }
        \cup { << p1 >> : p1 \in { p \in LeapPairs(firstId) : enclosesPos(p, cursorPos) } }
        \cup { l \in { << p1, p2 >> : p1 \in LeapPairs(firstId),
                                      p2 \in LeapPairs(firstId + 1) } :
                 /\ isBefore(l[1].open, l[2].open)
                 /\ isBefore(l[2].close, l[1].close)
                 /\ enclosesPos(l[2], cursorPos) }

LeapBuffers == { <<>> } \cup { << p >> : p \in LeapPairs(5) }

Apart(nest1, nest2) ==
    \A j \in DOMAIN nest1 : \A k \in DOMAIN nest2 :
        isBefore(nest1[j].close, nest2[k].open)

InitLeap ==
    /\ cursors  \in CursorLists
    /\ settings \in SettingsValues
    /\ \E nest1 \in LeapNests(cursors[1], 1) :
       \E nest2 \in (IF Len(cursors) = 2 THEN LeapNests(cursors[2], 3) ELSE { <<>> }) :
       \E buffer \in LeapBuffers :
           /\ Apart(nest1, nest2)
           /\ clusters =
                  [i \in DOMAIN cursors |->
                      [data |-> reapplyDecorations(IF i = 1 THEN nest1 ELSE nest2,
                                                   settings.decorateOnlyNearestPair),
                       recentlyRemovedDueToCursorMove |->
                           IF i = 1 THEN buffer ELSE <<>>]]
    /\ nextId   = 6
    /\ last     = [op |-> "init", triggerPoints |-> <<>>, pending |-> {},
                   created |-> {}, blocked |-> FALSE,
                   undecorated |-> 0, buffered |-> 0, escaped |-> 0,
                   released |-> 0, leftDecorated |-> 0]
    /\ engine   = NoEngine
    /\ delta    = [stage |-> "unused"]

\* The leap command while no editor is active: activeTracker is undefined and
\* the optional call does nothing.
LeapWithoutActiveTracker ==
    /\ last' = Event("leapWithoutActiveTracker", <<>>, clusters)
    /\ UNCHANGED << cursors, clusters, settings, nextId, delta, engine >>

\* The selection-change event that the host raises for the cursor that a
\* leap has moved: the clusters are updated with the cursors as the leap left
\* them.
LeapSelectionChange ==
    /\ last.op = "leap"
    /\ clusters' = Tracker_onSelectionChange(clusters, cursors, settings)
    /\ last'     = Event("leapSelection", <<>>, clusters')
    /\ UNCHANGED << cursors, settings, nextId, delta, engine >>

NextLeap ==
    \/ Leap
    \/ LeapFallsThrough
    \/ LeapWithoutActiveTracker
    \/ LeapSelectionChange

SpecLeap == InitLeap /\ [][NextLeap]_vars

\* ------------------------------------------------------------------------
\* updateGivenContentChanges run on a container in a state a tracker leaves it
\* in, with the content changes of an event of the host, which may be none:
\* the host also fires the event when only the dirty state of the document
\* changes.

\* Batches of the host: no change, or one text typed at a point.
HostBatches ==
    { <<>> } \cup { << Change(p, p, t) >> : p \in Positions,
                                            t \in { ParenPair, << "a" >> } }

\* The container holds a nest of pairs around the cursor and, awaiting
\* rescue, none or one pair that the cursor has left.
InitHost ==
    /\ cursors  \in { << c >> : c \in CursorPositions }
    /\ clusters = << NewPairs >>
    /\ settings \in SettingsValues
    /\ nextId   = 6
    /\ last     = [op |-> "init", triggerPoints |-> <<>>, pending |-> {},
                   created |-> {}, blocked |-> FALSE,
                   undecorated |-> 0, buffered |-> 0, escaped |-> 0,
                   released |-> 0, leftDecorated |-> 0]
    /\ engine   = NoEngine
    /\ \E nest \in LeapNests(cursors[1], 1) :
       \E buffer \in { b \in LeapBuffers :
                          \A j \in DOMAIN b : ~ enclosesPos(b[j], cursors[1]) } :
       \E contentChanges \in HostBatches :
           delta = [stage  |-> "input",
                    self   |-> [data |-> reapplyDecorations(
                                             nest, settings.decorateOnlyNearestPair),
                                recentlyRemovedDueToCursorMove |-> buffer],
                    contentChanges |-> contentChanges,
                    result |-> NewPairs,
                    threw  |-> FALSE]

\* One content-change event handled by the container.
HostApply ==
    /\ delta.stage = "input"
    /\ delta' = [delta EXCEPT !.stage  = "output",
                              !.result = updateGivenContentChanges(
                                             delta.self, delta.contentChanges,
                                             cursors[1], settings, nextId),
                              !.threw  = getNewPairThrows(delta.contentChanges)]
    /\ UNCHANGED << cursors, clusters, settings, nextId, last, engine >>

NextHost == HostApply

SpecHost == InitHost /\ [][NextHost]_vars

\* ------------------------------------------------------------------------
\* The Engine: one Tracker for each visible text editor, and a pointer to the
\* tracker of the active text editor.

EngineLastChar == 1

\* The text editors the window can show.
Editors == { "one", "two" }

\* window.activeTextEditor when no text editor has focus.
NoEditor == "none"

\* activeTracker when it is undefined; the identities of Tracker instances
\* are the numbers from 1.
NoTracker == 0

EnginePositions == { Pos(0, c) : c \in 0..EngineLastChar }

\* The cursors of an editor of the window: one cursor on the first line.
EngineCursors == { << p >> : p \in EnginePositions }

\* The content changes of an editor of the window: a trigger pair, a letter
\* or a line break typed at a point, or one character deleted.
EngineBatches ==
    { << Change(p, p, t) >> : p \in EnginePositions,
                              t \in { ParenPair, << "a" >>, << NL >> } }
        \cup { << Change(p, translateChar(p, 1), <<>>) >> : p \in EnginePositions }

\* new Tracker(editor): an empty cluster per cursor, the effective settings
\* of the editor; the editor's cursor is taken at the start of the document,
\* from where a cursor change takes it anywhere.
NewTracker(tid, curs, st) ==
    [tid      |-> tid,
     cursors  |-> curs,
     clusters |-> [i \in DOMAIN curs |-> NewPairs],
     settings |-> st]

\* The place of an editor among the editors.
EditorIndex(e) == IF e = "one" THEN 1 ELSE 2

\* The identity of the instance that new makes for an editor: none that is
\* in use.
FreshTrackerId(e, used) ==
    IF EditorIndex(e) \notin used THEN EditorIndex(e)
    ELSE EditorIndex(e) + Cardinality(Editors)

\* A watcher that hands every newly visible editor the tracker of an editor
\* that stays visible, when there is one.
RECURSIVE AssignTrackers_shared(_, _, _, _)
AssignTrackers_shared(trackers, editors, used, config) ==
    IF editors = {} THEN trackers
    ELSE LET e == CHOOSE x \in editors : TRUE
         IN  IF DOMAIN trackers = {}
             THEN AssignTrackers_shared(
                      trackers @@ (e :> NewTracker(FreshTrackerId(e, used), << Pos(0, 0) >>,
                                                   config[e])),
                      editors \ { e }, used \cup { FreshTrackerId(e, used) }, config)
             ELSE AssignTrackers_shared(
                      trackers @@ (e :> trackers[CHOOSE x \in DOMAIN trackers : TRUE]),
                      editors \ { e }, used, config)

\* newTrackers.set(visibleTextEditor, new Tracker(visibleTextEditor)) for
\* every visible editor that has no tracker yet.
RECURSIVE AssignTrackers(_, _, _, _)
AssignTrackers(trackers, editors, used, config) ==
    IF editors = {} THEN trackers
    ELSE LET e == CHOOSE x \in editors : TRUE
             t == FreshTrackerId(e, used)
         IN  AssignTrackers(trackers @@ (e :> NewTracker(t, << Pos(0, 0) >>, config[e])),
                            editors \ { e }, used \cup { t }, config)

\* A watcher that keeps the trackers of the editors that are no longer
\* visible.
visibleTextEditorsChangeWatcher_noneDisposed(trackers, visibleSet, activeTracker, config) ==
    AssignTrackers(trackers, visibleSet \ DOMAIN trackers,
                   { trackers[e].tid : e \in DOMAIN trackers } \cup { activeTracker },
                   config)

\* A watcher that disposes of every tracker and gives every visible editor a
\* new one.
visibleTextEditorsChangeWatcher_allRecreated(trackers, visibleSet, activeTracker, config) ==
    AssignTrackers(<< >>, visibleSet,
                   { trackers[e].tid : e \in DOMAIN trackers } \cup { activeTracker },
                   [e \in visibleSet |-> IF e \in DOMAIN config THEN config[e]
                                          ELSE trackers[e].settings])

\* Engine.visibleTextEditorsChangeWatcher: the trackers of the editors that
\* are still visible are kept, the others disposed of, and every newly
\* visible editor is given a new tracker.
visibleTextEditorsChangeWatcher(trackers, visibleSet, activeTracker, config) ==
    LET kept == [e \in DOMAIN trackers \cap visibleSet |-> trackers[e]]
    IN  AssignTrackers(kept, visibleSet \ DOMAIN kept,
                       { trackers[e].tid : e \in DOMAIN trackers } \cup { activeTracker },
                       config)

\* Engine.rebindActiveTracker: activeTracker is the tracker of the active
\* text editor, undefined when there is none or when it has no tracker.
rebindActiveTracker(trackers, activeTextEditor, activeTracker) ==
    IF activeTextEditor # NoEditor /\ activeTextEditor \in DOMAIN trackers
    THEN trackers[activeTextEditor].tid
    ELSE NoTracker

\* Pairs a tracker holds in its active lists.
TrackedBy(tracker) == ActiveIds(tracker.clusters)

\* An identity for the pair a content change may construct.
FreshPairId(tracker) ==
    LET present == ActiveIds(tracker.clusters) \cup PendingIds(tracker.clusters)
    IN  CHOOSE n \in 1..(Cardinality(present) + 1) :
            n \notin present /\ \A m \in 1..(n - 1) : m \in present

\* The digest of the event handled last: its kind, the editor it came from,
\* and the number of pairs that were tracked before it and are not after it.
EngineEvent(op, editor, before, after) ==
    [op        |-> op,
     editor    |-> editor,
     untracked |-> Cardinality(
                       { << e, id >> \in UNION { { << e, id >> : id \in TrackedBy(before[e]) } :
                                                 e \in DOMAIN before } :
                           ~ \E f \in DOMAIN after :
                                 /\ after[f].tid = before[e].tid
                                 /\ id \in TrackedBy(after[f]) })]

\* constructor(): a tracker for each visible text editor, then the binding to
\* the tracker of the active one.
InitEngine ==
    /\ cursors  = << Pos(0, 0) >>
    /\ clusters = << NewPairs >>
    /\ settings \in { st \in SettingsValues : st.decorateOnlyNearestPair }
    /\ nextId   = 1
    /\ last     = [op |-> "init", triggerPoints |-> <<>>, pending |-> {},
                   created |-> {}, blocked |-> FALSE,
                   undecorated |-> 0, buffered |-> 0, escaped |-> 0,
                   released |-> 0, leftDecorated |-> 0]
    /\ delta    = [stage |-> "unused"]
    /\ \E visible \in SUBSET Editors :
       \E active \in visible \cup { NoEditor } :
       \E config \in [visible -> SettingsValues] :
          LET trackers == AssignTrackers(<< >>, visible, {}, config)
          IN  engine = [visible       |-> visible,
                        active        |-> active,
                        trackers      |-> trackers,
                        activeTracker |-> rebindActiveTracker(trackers, active, NoTracker),
                        last          |-> EngineEvent("constructor", NoEditor, << >>, trackers)]

\* window.onDidChangeVisibleTextEditors, and window.onDidChangeActiveTextEditor
\* after it when the change of the visible editors moved the focus.
VisibleTextEditorsChange ==
    \E newVisible \in (SUBSET Editors) \ { engine.visible } :
    \E newActive \in newVisible \cup { NoEditor } :
    \E config \in [newVisible \ DOMAIN engine.trackers -> SettingsValues] :
        LET newTrackers == visibleTextEditorsChangeWatcher(
                               engine.trackers, newVisible, engine.activeTracker,
                               config)
        IN  /\ engine' =
                 [engine EXCEPT
                    !.visible       = newVisible,
                    !.active        = newActive,
                    !.trackers      = newTrackers,
                    !.activeTracker =
                        IF newActive # engine.active \/ engine.active \notin newVisible
                        THEN rebindActiveTracker(newTrackers, newActive, engine.activeTracker)
                        ELSE engine.activeTracker,
                    !.last          = EngineEvent("visible", NoEditor,
                                                  engine.trackers, newTrackers)]
            /\ UNCHANGED << cursors, clusters, settings, nextId, last, delta >>

\* window.onDidChangeActiveTextEditor: the focus moves to another visible
\* editor, or to no editor.
ActiveTextEditorChange ==
    \E newActive \in (engine.visible \cup { NoEditor }) \ { engine.active } :
        /\ engine' =
             [engine EXCEPT
                !.active        = newActive,
                !.activeTracker = rebindActiveTracker(engine.trackers, newActive,
                                                      engine.activeTracker),
                !.last          = EngineEvent("active", NoEditor,
                                              engine.trackers, engine.trackers)]
        /\ UNCHANGED << cursors, clusters, settings, nextId, last, delta >>

\* Every position of every pair of a tracker lies in the document of its
\* editor.
EngineInExtent(tracker) ==
    \A i \in DOMAIN tracker.clusters :
        \A j \in DOMAIN tracker.clusters[i].data :
            /\ tracker.clusters[i].data[j].open  \in EnginePositions
            /\ tracker.clusters[i].data[j].close \in EnginePositions

\* A content change in a visible editor, focused or not: its tracker alone
\* handles it.
EditorContentChange ==
    \E e \in DOMAIN engine.trackers : \E contentChanges \in EngineBatches :
        LET tracker == engine.trackers[e]
            updated == [tracker EXCEPT
                          !.clusters = Tracker_onContentChange(
                                           tracker.clusters, tracker.cursors,
                                           contentChanges, tracker.settings,
                                           FreshPairId(tracker))]
            newTrackers == [engine.trackers EXCEPT ![e] = updated]
        IN  /\ EngineInExtent(updated)
            /\ engine' = [engine EXCEPT
                            !.trackers = newTrackers,
                            !.last     = EngineEvent("content", e,
                                                     engine.trackers, newTrackers)]
            /\ UNCHANGED << cursors, clusters, settings, nextId, last, delta >>

\* A cursor change in a visible editor, focused or not: its tracker alone
\* handles it.
EditorSelectionChange ==
    \E e \in DOMAIN engine.trackers :
    \E newCursors \in EngineCursors \ { engine.trackers[e].cursors } :
        LET tracker == engine.trackers[e]
            updated == [tracker EXCEPT
                          !.cursors  = newCursors,
                          !.clusters = Tracker_onSelectionChange(
                                           tracker.clusters, newCursors,
                                           tracker.settings)]
            newTrackers == [engine.trackers EXCEPT ![e] = updated]
        IN  /\ engine' = [engine EXCEPT
                            !.trackers = newTrackers,
                            !.last     = EngineEvent("selection", e,
                                                     engine.trackers, newTrackers)]
            /\ UNCHANGED << cursors, clusters, settings, nextId, last, delta >>

\* A tracker that takes a changed snapshot and keeps its pairs.
Tracker_onConfigurationChange_pairsKept(tracker, newSettings) ==
    [tracker EXCEPT !.settings = newSettings]

\* A tracker that clears its clusters at every configuration change.
Tracker_onConfigurationChange_alwaysCleared(tracker, newSettings) ==
    [tracker EXCEPT !.clusters = Tracker_escapeLeaperMode(tracker.clusters),
                    !.settings = newSettings]

\* A tracker at a configuration change: when the effective settings of its
\* editor differ in value from its snapshot, it clears every cluster and
\* takes the new snapshot.
Tracker_onConfigurationChange(tracker, newSettings) ==
    IF newSettings # tracker.settings
    THEN [tracker EXCEPT !.clusters = Tracker_escapeLeaperMode(tracker.clusters),
                         !.settings = newSettings]
    ELSE tracker

\* workspace.onDidChangeConfiguration: every tracker looks at the effective
\* settings of its editor, which the change may have left as they were.
EngineConfigurationChange ==
    \E newConfig \in [DOMAIN engine.trackers -> SettingsValues] :
        LET newTrackers == [e \in DOMAIN engine.trackers |->
                               Tracker_onConfigurationChange(engine.trackers[e],
                                                             newConfig[e])]
        IN  /\ engine' = [engine EXCEPT
                            !.trackers = newTrackers,
                            !.last     = EngineEvent("configuration", NoEditor,
                                                     engine.trackers, newTrackers)]
            /\ UNCHANGED << cursors, clusters, settings, nextId, last, delta >>

\* The tracker activeTracker points to, as a set: empty when the pointer is
\* undefined.
ActiveTrackerOf(eng) ==
    { e \in DOMAIN eng.trackers : eng.trackers[e].tid = eng.activeTracker }

\* leaper.leap: this.activeTracker?.leap()
LeapCommand ==
    \/ /\ ActiveTrackerOf(engine) = {}
       /\ engine' = [engine EXCEPT
                       !.last = EngineEvent("leap", NoEditor,
                                            engine.trackers, engine.trackers)]
       /\ UNCHANGED << cursors, clusters, settings, nextId, last, delta >>
    \/ \E e \in ActiveTrackerOf(engine) :
       \E textInBetween \in TextsInBetweenOf(engine.trackers[e].clusters[1],
                                             engine.trackers[e].cursors[1]) :
          LET tracker == engine.trackers[e]
              updated ==
                  IF hasLineOfSight(tracker.clusters[1], textInBetween)
                  THEN [tracker EXCEPT
                          !.cursors[1] = translateChar(mostNested(tracker.clusters[1]).close, 1),
                          !.clusters   = Tracker_leap(tracker.clusters, tracker.settings)]
                  ELSE tracker
              newTrackers == [engine.trackers EXCEPT ![e] = updated]
          IN  /\ updated.cursors \in EngineCursors
              /\ engine' = [engine EXCEPT
                              !.trackers = newTrackers,
                              !.last     = EngineEvent("leap", NoEditor,
                                                       engine.trackers, newTrackers)]
              /\ UNCHANGED << cursors, clusters, settings, nextId, last, delta >>

\* leaper.escapeLeaperMode: this.activeTracker?.escapeLeaperMode()
EscapeLeaperModeCommand ==
    LET newTrackers ==
            [e \in DOMAIN engine.trackers |->
                IF e \in ActiveTrackerOf(engine)
                THEN [engine.trackers[e] EXCEPT
                        !.clusters = Tracker_escapeLeaperMode(engine.trackers[e].clusters)]
                ELSE engine.trackers[e]]
    IN  /\ engine' = [engine EXCEPT
                        !.trackers = newTrackers,
                        !.last     = EngineEvent("escape", NoEditor,
                                                 engine.trackers, newTrackers)]
        /\ UNCHANGED << cursors, clusters, settings, nextId, last, delta >>

NextEngine ==
    \/ VisibleTextEditorsChange
    \/ ActiveTextEditorChange
    \/ EditorContentChange
    \/ EditorSelectionChange
    \/ EngineConfigurationChange
    \/ LeapCommand
    \/ EscapeLeaperModeCommand

SpecEngine == InitEngine /\ [][NextEngine]_vars

\* ------------------------------------------------------------------------
\* The Engine handler by handler: a change of the window raises the
\* visible-editors event, the active-editor event, or both, and each watcher
\* handles its event in a step of its own.  A Tracker is seen as the Engine
\* sees it: an instance with two contexts that it updates on its own.

ContextNames == { "inLeaperMode", "hasLineOfSight" }

\* The contexts of a new Tracker, and of a disposed one: it tracks no pair.
NoContexts == [inLeaperMode |-> FALSE, hasLineOfSight |-> FALSE]

\* Values the two contexts of a Tracker can have: a line of sight needs a
\* tracked pair.
ContextValues ==
    { c \in [inLeaperMode : BOOLEAN, hasLineOfSight : BOOLEAN] :
        c.hasLineOfSight => c.inLeaperMode }

\* The effective settings the editors of the window have; they play no part
\* in what the Engine does.
WindowConfig(editors) ==
    [e \in editors |-> CHOOSE st \in SettingsValues : st.decorateOnlyNearestPair]

\* The contexts per editor after the watcher has replaced Engine.trackers: a
\* tracker that was kept has the contexts it had, a new one those of a new
\* Tracker.
ContextsAfter(trackers, contexts, newTrackers) ==
    [e \in DOMAIN newTrackers |->
        IF e \in DOMAIN trackers /\ trackers[e].tid = newTrackers[e].tid
        THEN contexts[e]
        ELSE NoContexts]

\* The callbacks of the two context broadcasters:
\* this.activeTracker?.inLeaperModeContext.get() ?? false, and the same for
\* hasLineOfSight.
ContextCallback(trackers, contexts, activeTracker) ==
    IF \E e \in DOMAIN trackers : trackers[e].tid = activeTracker
    THEN contexts[CHOOSE e \in DOMAIN trackers : trackers[e].tid = activeTracker]
    ELSE NoContexts

\* A rebinding that leaves the previous context watchers listening.
rebindWatchers_previousKept(watchers, activeTracker) ==
    [n \in ContextNames |->
        watchers[n] \cup (IF activeTracker = NoTracker THEN {} ELSE { activeTracker })]

\* Engine.rebindActiveTracker, the context watchers: the previous ones are
\* disposed of, and the contexts of the active tracker, if there is one, are
\* listened to.  A watcher is the tracker it listens to.
rebindWatchers(watchers, activeTracker) ==
    [n \in ContextNames |->
        IF activeTracker = NoTracker THEN {} ELSE { activeTracker }]

\* The digest of the step taken last: its kind, the editor whose tracker
\* updated its contexts, the broadcasters whose set() was called, and the
\* values their callbacks hand over.
WindowEvent(op, editor, called, handed) ==
    [op |-> op, editor |-> editor, called |-> called, handed |-> handed]

\* constructor()
InitWindow ==
    /\ cursors  = << Pos(0, 0) >>
    /\ clusters = << NewPairs >>
    /\ settings \in { st \in SettingsValues : st.decorateOnlyNearestPair }
    /\ nextId   = 1
    /\ last     = [op |-> "init", triggerPoints |-> <<>>, pending |-> {},
                   created |-> {}, blocked |-> FALSE,
                   undecorated |-> 0, buffered |-> 0, escaped |-> 0,
                   released |-> 0, leftDecorated |-> 0]
    /\ delta    = [stage |-> "unused"]
    /\ \E visible \in SUBSET Editors :
       \E active \in visible \cup { NoEditor } :
          LET trackers      == AssignTrackers(<< >>, visible, {}, WindowConfig(visible))
              activeTracker == rebindActiveTracker(trackers, active, NoTracker)
              contexts      == [e \in visible |-> NoContexts]
          IN  engine = [visible       |-> visible,
                        active        |-> active,
                        trackers      |-> trackers,
                        contexts      |-> contexts,
                        activeTracker |-> activeTracker,
                        watchers      |-> rebindWatchers([n \in ContextNames |-> {}],
                                                         activeTracker),
                        pending       |-> <<>>,
                        last          |-> WindowEvent("constructor", NoEditor, ContextNames,
                                              ContextCallback(trackers, contexts,
                                                              activeTracker))]

\* The orders in which the events of a set can be delivered.
Deliveries(events) ==
    IF events = {} THEN { <<>> }
    ELSE IF Cardinality(events) = 1 THEN { << ev >> : ev \in events }
    ELSE { << "visible", "active" >>, << "active", "visible" >> }

\* The window changes: other editors are visible, another editor or none has
\* the focus.  The events that the change raises wait for their watchers.
WindowChange ==
    /\ engine.pending = <<>>
    /\ \E newVisible \in SUBSET Editors :
       \E newActive \in newVisible \cup { NoEditor } :
       \E order \in Deliveries((IF newVisible # engine.visible THEN { "visible" } ELSE {})
                                \cup (IF newActive # engine.active THEN { "active" } ELSE {})) :
           /\ order # <<>>
           /\ engine' = [engine EXCEPT
                           !.visible = newVisible,
                           !.active  = newActive,
                           !.pending = order,
                           !.last    = WindowEvent("window", NoEditor, {},
                                           ContextCallback(engine.trackers, engine.contexts,
                                                           engine.activeTracker))]
    /\ UNCHANGED << cursors, clusters, settings, nextId, last, delta >>

\* visibleTextEditorsChangeWatcher handles its event.
DeliverVisible ==
    /\ engine.pending # <<>>
    /\ Head(engine.pending) = "visible"
    /\ LET newTrackers == visibleTextEditorsChangeWatcher(
                               engine.trackers, engine.visible, engine.activeTracker,
                               WindowConfig(engine.visible))
           newContexts == ContextsAfter(engine.trackers, engine.contexts, newTrackers)
       IN  engine' = [engine EXCEPT
                        !.trackers = newTrackers,
                        !.contexts = newContexts,
                        !.pending  = Tail(engine.pending),
                        !.last     = WindowEvent("visible", NoEditor, {},
                                         ContextCallback(newTrackers, newContexts,
                                                         engine.activeTracker))]
    /\ UNCHANGED << cursors, clusters, settings, nextId, last, delta >>

\* activeTextEditorChangeWatcher handles its event: rebindActiveTracker.
DeliverActive ==
    /\ engine.pending # <<>>
    /\ Head(engine.pending) = "active"
    /\ LET activeTracker == rebindActiveTracker(engine.trackers, engine.active,
                                                engine.activeTracker)
       IN  engine' = [engine EXCEPT
                        !.activeTracker = activeTracker,
                        !.watchers      = rebindWatchers(engine.watchers, activeTracker),
                        !.pending       = Tail(engine.pending),
                        !.last          = WindowEvent("active", NoEditor, ContextNames,
                                              ContextCallback(engine.trackers,
                                                              engine.contexts,
                                                              activeTracker))]
    /\ UNCHANGED << cursors, clusters, settings, nextId, last, delta >>

\* The tracker of a visible editor updates its contexts; each context that
\* has a new value tells its listeners, and a listener of the Engine calls
\* set() of the broadcaster of that context.
ContextUpdate ==
    /\ engine.pending = <<>>
    /\ \E e \in DOMAIN engine.trackers :
       \E new \in ContextValues \ { engine.contexts[e] } :
           LET newContexts == [engine.contexts EXCEPT ![e] = new]
               updated     == { n \in ContextNames : new[n] # engine.contexts[e][n] }
           IN  engine' = [engine EXCEPT
                            !.contexts = newContexts,
                            !.last     = WindowEvent("update", e,
                                             { n \in updated :
                                                 engine.trackers[e].tid \in engine.watchers[n] },
                                             ContextCallback(engine.trackers, newContexts,
                                                             engine.activeTracker))]
    /\ UNCHANGED << cursors, clusters, settings, nextId, last, delta >>

\* leaper.leap or leaper.escapeLeaperMode: the command is forwarded to
\* activeTracker, if it is defined.
WindowCommand ==
    /\ engine.pending = <<>>
    /\ engine' = [engine EXCEPT
                    !.last = WindowEvent("command", NoEditor, {},
                                 ContextCallback(engine.trackers, engine.contexts,
                                                 engine.activeTracker))]
    /\ UNCHANGED << cursors, clusters, settings, nextId, last, delta >>

NextWindow ==
    \/ WindowChange
    \/ DeliverVisible
    \/ DeliverActive
    \/ ContextUpdate
    \/ WindowCommand

SpecWindow == InitWindow /\ [][NextWindow]_vars

\* ------------------------------------------------------------------------
\* Properties.

\* Consecutive pairs of a list are strictly nested, outermost first.
Nested(pairs) ==
    \A j \in 1..(Len(pairs) - 1) :
        /\ isBefore(pairs[j].open, pairs[j + 1].open)
        /\ isBefore(pairs[j + 1].open, pairs[j + 1].close)
        /\ isBefore(pairs[j + 1].close, pairs[j].close)

\* C1: in every reachable state, the consecutive pairs P_i, P_i+1 of every
\* cluster satisfy P_i.open < P_i+1.open < P_i+1.close < P_i.close.
C1_NestingInvariant == \A i \in DOMAIN clusters : Nested(clusters[i].data)

\* The pair with identity `id` is held by no cluster, neither in an active
\* list nor in a rescue buffer.
Gone(cs, id) == id \notin ActiveIds(cs) \cup PendingIds(cs)

\* C2: a pair that a selection change moved to the rescue buffer and that the
\* very next content change shifts so that it encloses the cursor again is back
\* in the active list, at its shifted positions; one that the content change
\* leaves without the cursor inside is held nowhere afterwards, and a pair
\* held nowhere is never held again.
C2_RescueCorrectness ==
    [][ /\ last'.op = "content" =>
            \A i \in DOMAIN clusters :
                \A j \in DOMAIN clusters[i].recentlyRemovedDueToCursorMove :
                    LET pair    == clusters[i].recentlyRemovedDueToCursorMove[j]
                        shifted == { s \in last'.pending : s.id = pair.id }
                    IN  IF shifted # {}
                        THEN \E k \in DOMAIN clusters'[i].data :
                                Sides(clusters'[i].data)[k] \in shifted
                        ELSE Gone(clusters', pair.id)
        /\ \A id \in 1..(nextId - 1) : Gone(clusters, id) => Gone(clusters', id)
      ]_vars

\* C2 witness: a content change has reinstated a pair that was awaiting rescue.
C2_Witness ==
    /\ last.op = "content"
    /\ \E s \in last.pending : s.id \in ActiveIds(clusters)

\* The active list of a cluster after one logical edit that types `text` at
\* the cursor, the content change being delivered first.
TypedContentFirst(self, cursorPos, text) ==
    LET after == Pos(cursorPos.line, cursorPos.character + Len(text))
        batch == << Change(cursorPos, cursorPos, text) >>
    IN  updateGivenCursorChanges(
            updateGivenContentChanges(self, batch, cursorPos, settings, nextId),
            after, settings).data

\* The same, the selection change being delivered first.
TypedCursorFirst(self, cursorPos, text) ==
    LET after == Pos(cursorPos.line, cursorPos.character + Len(text))
        batch == << Change(cursorPos, cursorPos, text) >>
    IN  updateGivenContentChanges(
            updateGivenCursorChanges(self, after, settings),
            batch, after, settings, nextId).data

\* Single-line texts that are typed or pasted.
TypedTexts == { t \in Texts : t # <<>> /\ splitDeltaLines(t) = 0 }

\* The cursor of a cluster is inside the pairs the cluster tracks.
CursorInsidePairs(self, cursorPos) ==
    /\ Len(self.data) >= 1
    /\ \A j \in DOMAIN self.data : enclosesPos(self.data[j], cursorPos)

\* C3: typing single-line text at a cursor that is inside the tracked pairs
\* leaves the same active list whichever of the content-change and the
\* selection-change event is delivered first.
C3_OrderIndependence ==
    \A i \in DOMAIN clusters :
        CursorInsidePairs(clusters[i], cursors[i]) =>
            \A text \in TypedTexts :
                Sides(TypedContentFirst(clusters[i], cursors[i], text))
                    = Sides(TypedCursorFirst(clusters[i], cursors[i], text))

\* The same for typed text that is not a trigger pair of the settings.
C3_OrderIndependencePlainText ==
    \A i \in DOMAIN clusters :
        CursorInsidePairs(clusters[i], cursors[i]) =>
            \A text \in TypedTexts \ settings.languageRule :
                Sides(TypedContentFirst(clusters[i], cursors[i], text))
                    = Sides(TypedCursorFirst(clusters[i], cursors[i], text))

\* The trigger point of the change of a batch that the tracker attributes to
\* cluster i: that of change i when the batch has one change per cursor,
\* none otherwise.
Attributed(triggerPoints, i) ==
    IF Len(triggerPoints) = Len(cursors) THEN triggerPoints[i] ELSE Undefined

\* The pairs of a list that the last event constructed.
CreatedIn(pairs) == SelectSeq(pairs, LAMBDA pair : pair.id \in last.created)

\* C4: a content change adds a new pair to a cluster iff the change attributed
\* to the cluster is the insertion of a trigger pair; the pair then has its
\* open at the insertion point, its close one character further, and is last
\* in the list.
C4_NewPairDetection ==
    last.op = "content" =>
        \A i \in DOMAIN clusters :
            LET attributed == Attributed(last.triggerPoints, i)
                created    == CreatedIn(clusters[i].data)
            IN  IF attributed # Undefined
                THEN /\ Len(created) = 1
                     /\ created[1].open  = attributed
                     /\ created[1].close = translateChar(attributed, 1)
                     /\ clusters[i].data[Len(clusters[i].data)] = created[1]
                ELSE created = <<>>

\* The same for the batches of one change in an editor with one cursor.
C4_NewPairDetectionSingleChange ==
    (Len(last.triggerPoints) = 1 /\ Len(cursors) = 1) => C4_NewPairDetection

\* C5: a batch whose number of changes differs from the number of cursors
\* creates no pair.
C5_NoPairFromUnattributedBatch ==
    (last.op = "content" /\ Len(last.triggerPoints) # Len(cursors)) =>
        last.created = {}

\* C6: a batch of two trigger-pair insertions in an editor with two cursors
\* gives each cluster exactly one new pair, that of cluster i made from
\* change i.
C6_IndexCorrespondence ==
    ( /\ last.op = "content"
      /\ Len(last.triggerPoints) = 2
      /\ Len(cursors) = 2
      /\ \A k \in 1..2 : last.triggerPoints[k] # Undefined ) =>
        \A i \in 1..2 :
            LET created == CreatedIn(clusters[i].data)
                start   == last.triggerPoints[i]
            IN  /\ Len(created) = 1
                /\ created[1].open \in { start, translateChar(start, 2) }

\* C7: after a selection change that keeps the cursor count, the active list
\* of each cluster is the sub-sequence of its former pairs that enclose the
\* cursor, order and positions unchanged, and the rescue buffer holds the
\* other former pairs.
C7_CursorChangeFilter ==
    [][ (last'.op = "selection" /\ Len(cursors') = Len(cursors)) =>
            \A i \in DOMAIN clusters :
                /\ Sides(clusters'[i].data) =
                     Sides(SelectSeq(clusters[i].data,
                                     LAMBDA pair : enclosesPos(pair, cursors'[i])))
                /\ Sides(clusters'[i].recentlyRemovedDueToCursorMove) =
                     Sides(SelectSeq(clusters[i].data,
                                     LAMBDA pair : ~ enclosesPos(pair, cursors'[i])))
      ]_vars

\* C7 witness: a selection change has kept one pair of a cluster and moved
\* another into the rescue buffer.
C7_Witness ==
    /\ last.op = "selection"
    /\ \E i \in DOMAIN clusters :
        /\ clusters[i].data # <<>>
        /\ clusters[i].recentlyRemovedDueToCursorMove # <<>>

\* All the pairs a cluster holds.
Held(self) == self.data \o self.recentlyRemovedDueToCursorMove

\* C8 as stated: enclosesPos holds iff open <= pos <= close, so a selection
\* change that puts the cursor on the open or on the close of a pair does not
\* remove the pair.
C8_EnclosesBothEndsInclusive ==
    \A i \in DOMAIN clusters :
        /\ \A j \in DOMAIN Held(clusters[i]) :
            \A pos \in CursorPositions :
                enclosesPos(Held(clusters[i])[j], pos) <=>
                    /\ isBeforeOrEqual(Held(clusters[i])[j].open, pos)
                    /\ isBeforeOrEqual(pos, Held(clusters[i])[j].close)
        /\ last.op = "selection" =>
            \A j \in DOMAIN clusters[i].recentlyRemovedDueToCursorMove :
                /\ clusters[i].recentlyRemovedDueToCursorMove[j].open  # cursors[i]
                /\ clusters[i].recentlyRemovedDueToCursorMove[j].close # cursors[i]

\* C8 amended: enclosesPos holds iff open < pos <= close, so a selection change
\* that puts the cursor on the close of a pair does not remove the pair, and
\* one that puts it on the open does.
C8_EnclosesCloseInclusive ==
    \A i \in DOMAIN clusters :
        /\ \A j \in DOMAIN Held(clusters[i]) :
            \A pos \in CursorPositions :
                enclosesPos(Held(clusters[i])[j], pos) <=>
                    /\ isBefore(Held(clusters[i])[j].open, pos)
                    /\ isBeforeOrEqual(pos, Held(clusters[i])[j].close)
        /\ last.op = "selection" =>
            /\ \A j \in DOMAIN clusters[i].recentlyRemovedDueToCursorMove :
                clusters[i].recentlyRemovedDueToCursorMove[j].close # cursors[i]
            /\ \A j \in DOMAIN clusters[i].data :
                clusters[i].data[j].open # cursors[i]

\* C8 witness: a selection change has put the cursor on the close of a pair,
\* which is still in the active list.
C8_Witness ==
    /\ last.op = "selection"
    /\ \E i \in DOMAIN clusters :
        \E j \in DOMAIN clusters[i].data : clusters[i].data[j].close = cursors[i]

\* C9: a selection change keeps a pair tracked iff the cursor is on the line
\* of the pair, after its open and not after its close.
C9_CursorExit ==
    [][ (last'.op = "selection" /\ Len(cursors') = Len(cursors)) =>
            \A i \in DOMAIN clusters :
                \A j \in DOMAIN clusters[i].data :
                    LET pair == clusters[i].data[j]
                    IN  pair.id \in Ids(clusters'[i].data) <=>
                            /\ cursors'[i].line = pair.open.line
                            /\ pair.open.character < cursors'[i].character
                            /\ cursors'[i].character <= pair.close.character
      ]_vars

\* C9 witness: a selection change has put the cursor on the open of a pair,
\* which is no longer in the active list.
C9_Witness ==
    /\ last.op = "selection"
    /\ \E i \in DOMAIN clusters :
        \E j \in DOMAIN clusters[i].recentlyRemovedDueToCursorMove :
            clusters[i].recentlyRemovedDueToCursorMove[j].open = cursors[i]

\* C10: for every batch of non-overlapping changes, listed in ascending or in
\* descending document order, the result for a position is the place its
\* character has in the edited document, and is no position when a change
\* overwrites the character.
C10_DeltaIsImage ==
    delta.stage = "output" =>
        delta.result = ImageInDocument(delta.pos, delta.contentChanges)

\* The same for the batches listed in descending document order.
C10_DeltaIsImageDescending ==
    (delta.stage = "output" /\ IsDescending(delta.contentChanges)) =>
        delta.result = ImageInDocument(delta.pos, delta.contentChanges)

\* C10 witness: a run on a batch of two changes in descending order, both of
\* which shifted the position.
C10_Witness ==
    /\ delta.stage = "output"
    /\ Len(delta.contentChanges) = 2
    /\ IsDescending(delta.contentChanges)
    /\ delta.result # Undefined
    /\ LET first == getNewPos(delta.pos, delta.contentChanges[1])
       IN  first # delta.pos /\ delta.result # first

\* Number of line breaks of a text, and length of what follows its last line
\* break (of the whole text if it has none).
InsertedLines(text) == Cardinality({ k \in DOMAIN text : text[k] = NL })

InsertedLastLineLen(text) ==
    LET breaks == { k \in DOMAIN text : text[k] = NL }
    IN  IF breaks = {} THEN Len(text)
        ELSE Len(text) - (CHOOSE k \in breaks : \A m \in breaks : m <= k)

\* C11: for one change of range [start, end) and a position p >= end, the
\* result has line start.line + insertedLines + (p.line - end.line) and
\* character p.character if p.line > end.line, else insertedLastLineLen +
\* (p.character - end.character), to which start.character is added when the
\* text has no line break; for p < start the result is p.
C11_ShiftFormula ==
    (delta.stage = "output" /\ Len(delta.contentChanges) = 1) =>
        LET p     == delta.pos
            start == delta.contentChanges[1].range.start
            end   == delta.contentChanges[1].range.end
            text  == delta.contentChanges[1].text
        IN  /\ isAfterOrEqual(p, end) =>
                /\ delta.result.line =
                      start.line + InsertedLines(text) + (p.line - end.line)
                /\ delta.result.character =
                      IF p.line > end.line THEN p.character
                      ELSE IF InsertedLines(text) > 0
                      THEN InsertedLastLineLen(text) + (p.character - end.character)
                      ELSE start.character + InsertedLastLineLen(text)
                               + (p.character - end.character)
            /\ isBefore(p, start) => delta.result = p

\* C11 witness: a run on one change that replaces text of two lines by a
\* text with a line break, the position being on the end line of the range,
\* after the end.
C11_Witness ==
    /\ delta.stage = "output"
    /\ Len(delta.contentChanges) = 1
    /\ InsertedLines(delta.contentChanges[1].text) > 0
    /\ InsertedLastLineLen(delta.contentChanges[1].text) > 0
    /\ delta.contentChanges[1].range.start.line < delta.contentChanges[1].range.end.line
    /\ delta.pos.line = delta.contentChanges[1].range.end.line
    /\ delta.pos.character > delta.contentChanges[1].range.end.character

\* C12: for one change of range [start, end), the result is no position iff
\* start <= p < end; a position equal to end is kept, and a change of empty
\* range overwrites no position.
C12_DeletedIffInRange ==
    (delta.stage = "output" /\ Len(delta.contentChanges) = 1) =>
        LET p     == delta.pos
            start == delta.contentChanges[1].range.start
            end   == delta.contentChanges[1].range.end
        IN  /\ delta.result = Undefined <=>
                  (isBeforeOrEqual(start, p) /\ isBefore(p, end))
            /\ p = end => delta.result # Undefined
            /\ start = end => delta.result # Undefined

\* C12 witness: a run on one change of non-empty range, the position being
\* the end of the range.
C12_Witness ==
    /\ delta.stage = "output"
    /\ Len(delta.contentChanges) = 1
    /\ delta.contentChanges[1].range.start # delta.contentChanges[1].range.end
    /\ delta.pos = delta.contentChanges[1].range.end
    /\ delta.result # Undefined

\* The position lies strictly inside the range of a change of the batch, and
\* lies in the range of a change of the batch, start included.
StrictlyInsideSomeRange(pos, contentChanges) ==
    \E k \in DOMAIN contentChanges :
        /\ isBefore(contentChanges[k].range.start, pos)
        /\ isBefore(pos, contentChanges[k].range.end)

InsideSomeRange(pos, contentChanges) ==
    \E k \in DOMAIN contentChanges :
        /\ isBeforeOrEqual(contentChanges[k].range.start, pos)
        /\ isBefore(pos, contentChanges[k].range.end)

\* C13 as stated: the result is no position if the position lies strictly
\* inside the range of a change (start < p < end), and is a position for
\* every position that lies strictly inside no range.
C13_DeletedIffStrictlyInside ==
    (delta.stage = "output" /\ IsDescending(delta.contentChanges)) =>
        (delta.result = Undefined <=>
            StrictlyInsideSomeRange(delta.pos, delta.contentChanges))

\* C13 amended: for a batch listed in descending document order, the result
\* is no position iff the position lies in the range of a change, the start
\* of the range included and its end excluded.
C13_DeletedIffInsideStartIncluded ==
    (delta.stage = "output" /\ IsDescending(delta.contentChanges)) =>
        (delta.result = Undefined <=>
            InsideSomeRange(delta.pos, delta.contentChanges))

\* C13 witness: a run on two changes in descending order, the position being
\* the start of the range of the second and overwritten by it.
C13_Witness ==
    /\ delta.stage = "output"
    /\ Len(delta.contentChanges) = 2
    /\ IsDescending(delta.contentChanges)
    /\ delta.pos = delta.contentChanges[2].range.start
    /\ delta.result = Undefined

\* C14: with no change to apply, the result is the position itself.
C14_NoChangeNoMove ==
    (delta.stage = "output" /\ delta.contentChanges = <<>>) =>
        delta.result = delta.pos

\* C14 witness: a run on the batch of no change.
C14_Witness ==
    /\ delta.stage = "output"
    /\ delta.contentChanges = <<>>
    /\ delta.result \in DeltaPositions

\* The pairs of the result of a run that the container held before the run,
\* decoration flags left out.
HeldBefore(run) ==
    Sides(SelectSeq(run.result.data, LAMBDA pair : pair.id \in Ids(run.self.data)))

\* The pairs of a list for which Keep holds, each side replaced by its Move,
\* decoration flags left out.
KeptAndMoved(pairs, Keep(_), Move(_)) ==
    LET kept == SelectSeq(pairs, Keep)
    IN  [j \in DOMAIN kept |->
            [id |-> kept[j].id, open |-> Move(kept[j].open), close |-> Move(kept[j].close)]]

\* Neither side of the pair is overwritten by the batch, and the batch leaves
\* the two sides on one line.
SurvivesBatch(pair, contentChanges) ==
    LET open  == applyToPos(pair.open, contentChanges)
        close == applyToPos(pair.close, contentChanges)
    IN  /\ open # Undefined
        /\ close # Undefined
        /\ open.line = close.line

\* C15: after updateGivenContentChanges, a pair held before is in the active
\* list iff the batch overwrites neither of its sides and leaves the two on
\* one line; the pairs that stay keep their order and stand at the positions
\* the batch gives them.
C15_SurvivalOfHeldPairs ==
    delta.stage = "output" /\ "self" \in DOMAIN delta =>
        HeldBefore(delta) =
            KeptAndMoved(delta.self.data,
                         LAMBDA pair : SurvivesBatch(pair, delta.contentChanges),
                         LAMBDA pos : applyToPos(pos, delta.contentChanges))

\* C15 witness: a run on a container of two pairs of which the batch removes
\* the first and moves the second.
C15_Witness ==
    /\ delta.stage = "output"
    /\ "self" \in DOMAIN delta
    /\ Len(delta.self.data) = 2
    /\ Len(HeldBefore(delta)) = 1
    /\ HeldBefore(delta)[1].id = delta.self.data[2].id
    /\ HeldBefore(delta)[1].open # delta.self.data[2].open

\* The batch of a run is one insertion, at a point, of a text with a line
\* break, and of a text without line break.
IsMultiLineInsertion(run) ==
    /\ Len(run.contentChanges) = 1
    /\ isEmptyRange(run.contentChanges[1].range)
    /\ InsertedLines(run.contentChanges[1].text) > 0

IsSingleLineInsertion(run) ==
    /\ Len(run.contentChanges) = 1
    /\ isEmptyRange(run.contentChanges[1].range)
    /\ InsertedLines(run.contentChanges[1].text) = 0

\* Where a side stands after text with a line break is inserted at `point`.
AfterMultiLineInsertion(pos, point, text) ==
    IF isBefore(pos, point) THEN pos
    ELSE IF pos.line = point.line
    THEN Pos(pos.line + InsertedLines(text),
             InsertedLastLineLen(text) + (pos.character - point.character))
    ELSE Pos(pos.line + InsertedLines(text), pos.character)

\* C16: the insertion of a text with a line break at a point between the two
\* sides of a pair (after the open side, not after the close side) removes
\* the pair; every other pair of the container stays, a pair after the point
\* with both sides on their new line and column.
C16_MultiLineSplit ==
    (delta.stage = "output" /\ "self" \in DOMAIN delta /\ IsMultiLineInsertion(delta)) =>
        LET point == delta.contentChanges[1].range.start
            text  == delta.contentChanges[1].text
        IN  HeldBefore(delta) =
                KeptAndMoved(delta.self.data,
                             LAMBDA pair : ~ (/\ isBefore(pair.open, point)
                                              /\ isBeforeOrEqual(point, pair.close)),
                             LAMBDA pos : AfterMultiLineInsertion(pos, point, text))

\* C16 witness: a text with a line break was inserted between the sides of
\* one of two pairs; the other pair, after the point, stays and is on a new
\* line.
C16_Witness ==
    /\ delta.stage = "output"
    /\ "self" \in DOMAIN delta
    /\ IsMultiLineInsertion(delta)
    /\ Len(delta.self.data) = 2
    /\ Len(HeldBefore(delta)) = 1
    /\ HeldBefore(delta)[1].open.line > delta.self.data[1].open.line

\* Where a side stands after the range [s, e) of one line is replaced by a
\* text without line break.
AfterSingleLineChange(pos, change) ==
    IF pos.line = change.range.end.line /\ isAfterOrEqual(pos, change.range.end)
    THEN Pos(pos.line,
             pos.character + Len(change.text)
                 - (change.range.end.character - change.range.start.character))
    ELSE pos

\* The position lies in the range of the change, start included, end not.
InRange(pos, change) ==
    isBeforeOrEqual(change.range.start, pos) /\ isBefore(pos, change.range.end)

\* C17: one change that replaces a range [s, e) of one line by a text without
\* line break removes exactly the pairs with a side in [s, e); the sides of
\* the other pairs at or after e on that line move by the length of the text
\* less (e - s), their other sides stay.
C17_SingleLineReplacement ==
    ( /\ delta.stage = "output"
      /\ "self" \in DOMAIN delta
      /\ Len(delta.contentChanges) = 1
      /\ isSingleLine(delta.contentChanges[1].range)
      /\ InsertedLines(delta.contentChanges[1].text) = 0 ) =>
        HeldBefore(delta) =
            KeptAndMoved(delta.self.data,
                         LAMBDA pair : /\ ~ InRange(pair.open,  delta.contentChanges[1])
                                       /\ ~ InRange(pair.close, delta.contentChanges[1]),
                         LAMBDA pos : AfterSingleLineChange(pos, delta.contentChanges[1]))

\* C17 witness: the character of the open side of the inner pair of two
\* nested pairs was deleted; the outer pair stays, its close side one
\* character to the left.
C17_Witness ==
    /\ delta.stage = "output"
    /\ "self" \in DOMAIN delta
    /\ Len(delta.contentChanges) = 1
    /\ delta.contentChanges[1].text = <<>>
    /\ Len(delta.self.data) = 2
    /\ delta.contentChanges[1].range.start = delta.self.data[2].open
    /\ delta.contentChanges[1].range.end = translateChar(delta.self.data[2].open, 1)
    /\ HeldBefore(delta) =
          << [id    |-> delta.self.data[1].id,
              open  |-> delta.self.data[1].open,
              close |-> translateChar(delta.self.data[1].close, -1)] >>

\* C18: the insertion, at a point q, of a text without line break removes no
\* pair; every side at or after q on the line of q, a side at q included,
\* moves right by the length of the text, and every other side stays.
C18_SingleLineInsertion ==
    (delta.stage = "output" /\ "self" \in DOMAIN delta /\ IsSingleLineInsertion(delta)) =>
        LET q    == delta.contentChanges[1].range.start
            text == delta.contentChanges[1].text
        IN  /\ Len(HeldBefore(delta)) = Len(delta.self.data)
            /\ \A j \in DOMAIN delta.self.data :
                 /\ HeldBefore(delta)[j].id = delta.self.data[j].id
                 /\ \A side \in { "open", "close" } :
                      HeldBefore(delta)[j][side] =
                        IF delta.self.data[j][side].line = q.line
                             /\ delta.self.data[j][side].character >= q.character
                        THEN translateChar(delta.self.data[j][side], Len(text))
                        ELSE delta.self.data[j][side]

\* C18 witness: a text of two code units was inserted at the open side of a
\* pair, which stays, both sides two characters to the right.
C18_Witness ==
    /\ delta.stage = "output"
    /\ "self" \in DOMAIN delta
    /\ IsSingleLineInsertion(delta)
    /\ Len(delta.contentChanges[1].text) = 2
    /\ \E j \in DOMAIN delta.self.data :
         /\ delta.contentChanges[1].range.start = delta.self.data[j].open
         /\ HeldBefore(delta)[j].open  = translateChar(delta.self.data[j].open, 2)
         /\ HeldBefore(delta)[j].close = translateChar(delta.self.data[j].close, 2)

\* ------------------------------------------------------------------------
\* Leap.

\* Tracker.inLeaperMode: some cluster holds a pair.
inLeaperMode(cs) == \E i \in DOMAIN cs : ~ isEmpty(cs[i])

\* Number of pairs held by all the clusters together.
RECURSIVE TrackedCount(_)
TrackedCount(cs) ==
    IF cs = <<>> THEN 0 ELSE Len(Head(cs).data) + TrackedCount(Tail(cs))

\* A step that handles the leap command in an editor that has a tracker.
LeapCommandStep == last'.op \in { "leap", "leapFallsThrough" }

\* C19: when the cluster of the primary cursor holds a pair and nothing but
\* whitespace stands between the cursor and the close of its most nested
\* pair, the leap command puts the cursor one character after that close,
\* takes exactly that pair out of the cluster, leaves the other pairs of
\* the cluster, and the other clusters, where they were, and leaves no
\* buffer changed; when that pair was the only one tracked, the cluster is
\* empty afterwards and inLeaperMode is false.
C19_LeapEffect ==
    [][ (LeapCommandStep /\ ~ isEmpty(clusters[1]) /\ ~ last'.blocked) =>
            LET n == Len(clusters[1].data)
            IN  /\ last'.op = "leap"
                /\ cursors'[1] = Pos(clusters[1].data[n].close.line,
                                     clusters[1].data[n].close.character + 1)
                /\ \A i \in 2..Len(cursors) : cursors'[i] = cursors[i]
                /\ Sides(clusters'[1].data)
                       = SubSeq(Sides(clusters[1].data), 1, n - 1)
                /\ clusters[1].data[n].id \notin ActiveIds(clusters')
                /\ \A i \in 2..Len(clusters) : clusters'[i] = clusters[i]
                /\ clusters'[1].recentlyRemovedDueToCursorMove
                       = clusters[1].recentlyRemovedDueToCursorMove
                /\ (TrackedCount(clusters) = 1) =>
                       (isEmpty(clusters'[1]) /\ ~ inLeaperMode(clusters'))
      ]_vars

\* C19 witness: a leap has taken the inner one of two nested pairs; the outer
\* one is still held and the cursor stands just after where the inner close
\* was, still before the outer close.
C19_Witness ==
    /\ last.op = "leap"
    /\ Len(clusters[1].data) = 1
    /\ isBefore(clusters[1].data[1].open, cursors[1])
    /\ isBeforeOrEqual(cursors[1], clusters[1].data[1].close)

\* C20: the leap command changes nothing when the cluster of the primary
\* cursor is empty, when text other than whitespace stands between the
\* cursor and the close of the most nested pair, or when no tracker is
\* active: the cursors, the pairs of every cluster and every rescue buffer
\* stay as they were.
C20_LeapNoOp ==
    [][ ( \/ last'.op = "leapWithoutActiveTracker"
          \/ LeapCommandStep /\ (isEmpty(clusters[1]) \/ last'.blocked) ) =>
            /\ cursors'  = cursors
            /\ clusters' = clusters
      ]_vars

\* C20 witness: the leap command was given while a pair was held and text
\* other than whitespace stood before its close; the pair is still held.
C20_Witness ==
    /\ last.op = "leapFallsThrough"
    /\ last.blocked
    /\ ~ isEmpty(clusters[1])

\* ------------------------------------------------------------------------
\* Line of sight.

OnlyWhiteSpace(text) == \A k \in DOMAIN text : text[k] \in { " ", NL }

C22_EscapeIdempotent ==
    [][ (last'.op = "escape") =>
            /\ \A i \in DOMAIN clusters' : isEmpty(clusters'[i])
            /\ \A i \in DOMAIN clusters :
                   /\ Len(clearUndecorated(clusters[i])) = Len(clusters[i].data)
                   /\ \A j \in DOMAIN clusters[i].data :
                          /\ clearUndecorated(clusters[i])[j].id = clusters[i].data[j].id
                          /\ ~ clearUndecorated(clusters[i])[j].isDecorated
            /\ Tracker_escapeLeaperMode(clusters') = clusters'
            /\ UndecorateCalls(clusters') = 0
      ]_vars

\* C22 witness: an escape has undecorated two pairs and no cluster holds a
\* pair.
C22_Witness ==
    /\ last.op = "escape"
    /\ last.undecorated = 2
    /\ \A i \in DOMAIN clusters : isEmpty(clusters[i])

\* ------------------------------------------------------------------------
\* Contexts and decorations.

C24_DecorationInvariant ==
    \A i \in DOMAIN clusters : \A j \in DOMAIN clusters[i].data :
        IF settings.decorateOnlyNearestPair
        THEN clusters[i].data[j].isDecorated <=> (j = Len(clusters[i].data))
        ELSE clusters[i].data[j].isDecorated

\* C24 witness: only the nearest pair is to be decorated and a content
\* change has left a cluster with two pairs.
C24_Witness ==
    /\ last.op = "content"
    /\ settings.decorateOnlyNearestPair
    /\ \E i \in DOMAIN clusters : Len(clusters[i].data) = 2

\* ------------------------------------------------------------------------
\* The Engine and its trackers.

\* A tracker holds no pair, neither tracked nor awaiting rescue.
HoldsNothing(tracker) ==
    \A i \in DOMAIN tracker.clusters : tracker.clusters[i] = NewPairs

\* The editors whose tracker is the same instance before and after a step.
SameTracker(e) ==
    /\ e \in DOMAIN engine.trackers
    /\ e \in DOMAIN engine'.trackers
    /\ engine'.trackers[e].tid = engine.trackers[e].tid

\* C25: at a configuration change, every tracker whose editor has a new
\* effective value (detected pairs or decoration of all pairs) has all its
\* clusters emptied and holds the new snapshot: no pair recorded under the
\* old value is tracked afterwards; the cursors of the editor are as before.
C25_ConfigurationChangeClears ==
    [][ (engine'.last.op = "configuration") =>
            \A e \in DOMAIN engine.trackers :
                (engine'.trackers[e].settings # engine.trackers[e].settings) =>
                    /\ SameTracker(e)
                    /\ HoldsNothing(engine'.trackers[e])
                    /\ TrackedBy(engine'.trackers[e]) = {}
                    /\ engine'.trackers[e].cursors = engine.trackers[e].cursors
      ]_vars

\* C25 witness: a configuration change has changed the effective value of
\* an editor whose tracker held a pair; the tracker holds none now.
C25_Witness ==
    /\ engine.last.op = "configuration"
    /\ engine.last.untracked > 0
    /\ \E e \in DOMAIN engine.trackers : HoldsNothing(engine.trackers[e])

\* C26: at a configuration change, a tracker whose editor keeps its effective
\* value keeps its pairs, its rescue buffer and its cursors, whether its
\* editor has the focus or not; only trackers whose value changed lose pairs.
C26_ConfigurationChangeFrame ==
    [][ (engine'.last.op = "configuration") =>
            /\ engine'.visible = engine.visible
            /\ engine'.active  = engine.active
            /\ \A e \in DOMAIN engine.trackers :
                   (engine'.trackers[e].settings = engine.trackers[e].settings) =>
                       engine'.trackers[e] = engine.trackers[e]
      ]_vars

\* C26 witness: a configuration change has cleared the tracker of one editor
\* and the tracker of an editor without focus still holds its pair.
C26_Witness ==
    /\ engine.last.op = "configuration"
    /\ engine.last.untracked > 0
    /\ \E e \in DOMAIN engine.trackers :
          e # engine.active /\ TrackedBy(engine.trackers[e]) # {}

\* C27: after construction and after every change of the visible editors,
\* and in every state in between, the Engine holds a tracker for each visible
\* editor and for no other, and no two editors have the same tracker.
C27_OneTrackerPerVisibleEditor ==
    /\ DOMAIN engine.trackers = engine.visible
    /\ \A e \in DOMAIN engine.trackers : \A f \in DOMAIN engine.trackers :
          (engine.trackers[e].tid = engine.trackers[f].tid) => (e = f)

\* C27 witness: a change of the visible editors has left two editors
\* visible, one of which was visible before and holds a pair.
C27_Witness ==
    /\ engine.last.op = "visible"
    /\ Cardinality(engine.visible) = 2
    /\ \E e \in DOMAIN engine.trackers : TrackedBy(engine.trackers[e]) # {}

C29_FocusSwitchFrame ==
    [][ (engine'.last.op \in { "active", "visible" }) =>
            \A e \in engine.visible \cap engine'.visible :
                /\ SameTracker(e)
                /\ engine'.trackers[e] = engine.trackers[e]
      ]_vars

\* C29 witness: the focus has moved to no editor while a tracker holds a
\* pair.
C29_Witness ==
    /\ engine.last.op = "active"
    /\ engine.active = NoEditor
    /\ \E e \in DOMAIN engine.trackers : TrackedBy(engine.trackers[e]) # {}

WellFormed(pair) ==
    /\ pair.open.line = pair.close.line
    /\ isBefore(pair.open, pair.close)

\* C31: every pair of the active list has its open side before its close
\* side, on the same line: a content-change update of a list of such pairs
\* leaves only such pairs in the list, the pair it constructs included.
C31_OpenBeforeClose ==
    (delta.stage = "output") =>
        \A j \in DOMAIN delta.result.data : WellFormed(delta.result.data[j])

\* C31 witness: the update has kept a pair that a line break typed before it
\* took to the next line, and has constructed no pair.
C31_Witness ==
    /\ delta.stage = "output"
    /\ \E j \in DOMAIN delta.result.data : \E k \in DOMAIN delta.self.data :
          /\ delta.result.data[j].id = delta.self.data[k].id
          /\ delta.result.data[j].open.line = delta.self.data[k].open.line + 1

\* C32: after every content change the rescue buffer of every cluster is
\* empty, whether or not a pair of it was reinstated; a pair constructed
\* earlier enters an active list only at a content change and only from the
\* rescue buffer, so only the content change that follows its removal can
\* reinstate it.
C32_RescueBufferOneCycle ==
    [][ /\ (last'.op = "content") =>
               \A i \in DOMAIN clusters' :
                   clusters'[i].recentlyRemovedDueToCursorMove = <<>>
        /\ \A id \in (ActiveIds(clusters') \ ActiveIds(clusters)) \cap 1..(nextId - 1) :
               /\ last'.op = "content"
               /\ id \in PendingIds(clusters)
      ]_vars

\* C32 witness: a content change came while a pair awaited rescue and
\* reinstated none; the pair is held nowhere.
C32_Witness ==
    /\ last.op = "content"
    /\ last.buffered > 0
    /\ last.pending = {}
    /\ PendingIds(clusters) = {}

\* C33: a content-change event that carries no change is handled without a
\* fault and leaves the container as it was: the same pairs at the same
\* positions with the same decoration flags, and the same rescue buffer.
C33_EmptyChangeListIsNoOp ==
    (delta.stage = "output" /\ delta.contentChanges = <<>>) =>
        /\ ~ delta.threw
        /\ delta.result = delta.self

\* C34: after every selection change that leaves the number of cursors as it
\* was, the rescue buffer of each cluster holds exactly the pairs that this
\* update took out of the active list, in their order and at their positions,
\* and none of the pairs that were in the buffer before.
C34_BufferHoldsLastRemoved ==
    [][ (last'.op = "selection" /\ Len(cursors') = Len(cursors)) =>
            \A i \in DOMAIN clusters :
                /\ Sides(clusters'[i].recentlyRemovedDueToCursorMove)
                       = Sides(SelectSeq(clusters[i].data,
                                   LAMBDA pair : pair.id \notin Ids(clusters'[i].data)))
                /\ Ids(clusters'[i].recentlyRemovedDueToCursorMove)
                       \cap Ids(clusters[i].recentlyRemovedDueToCursorMove) = {}
      ]_vars

\* C34 witness: a selection change came while a pair awaited rescue and took
\* another pair out of the active list; the buffer holds that pair alone.
C34_Witness ==
    /\ last.op = "selection"
    /\ last.buffered > 0
    /\ Cardinality(PendingIds(clusters)) = 1

\* ------------------------------------------------------------------------
\* The Engine handler by handler.

\* activeTracker is undefined or one of the trackers of Engine.trackers.
ActiveTrackerHeld ==
    \/ engine.activeTracker = NoTracker
    \/ \E e \in DOMAIN engine.trackers : engine.trackers[e].tid = engine.activeTracker

\* C35: when the Engine has handled an active-editor change, it has called
\* set() of both broadcasters and their callbacks hand over the two contexts
\* of the tracker of the active editor, false for both when there is none.
\* From then on an update of a context of the active tracker calls set() of
\* the broadcaster of that context, which hands over the new value, and an
\* update of another tracker calls none.
C35_ContextBroadcast ==
    [][ /\ (engine'.last.op = "active") =>
               /\ engine'.last.called = ContextNames
               /\ engine'.last.handed =
                      IF engine'.active \in DOMAIN engine'.trackers
                      THEN engine'.contexts[engine'.active]
                      ELSE NoContexts
        /\ (engine'.last.op = "update") =>
               LET e       == engine'.last.editor
                   updated == { n \in ContextNames :
                                  engine'.contexts[e][n] # engine.contexts[e][n] }
               IN  /\ engine'.last.called =
                          IF engine.trackers[e].tid = engine.activeTracker
                          THEN updated ELSE {}
                   /\ (engine'.last.called # {}) =>
                          engine'.last.handed = engine'.contexts[e]
      ]_vars

\* C35 witness: the active tracker has updated a context and set() was
\* called, while the tracker of another editor, not listened to, is in
\* leaper mode.
C35_Witness ==
    /\ engine.last.op = "update"
    /\ engine.last.called # {}
    /\ \E f \in DOMAIN engine.trackers :
          /\ engine.trackers[f].tid # engine.activeTracker
          /\ engine.contexts[f].inLeaperMode

\* C36: in every state of the Engine, activeTracker is undefined or a
\* tracker of Engine.trackers: it never is a tracker that was disposed of.
C36_ActiveTrackerAlwaysHeld == ActiveTrackerHeld

\* What holds of activeTracker: whenever no event of a window change waits
\* for its watcher it is undefined or a tracker of Engine.trackers, and a
\* command, which the host runs in such a state only, is never forwarded to
\* a tracker that was disposed of.
ActiveTrackerHeldWhenSettled ==
    /\ (engine.pending = <<>>) => ActiveTrackerHeld
    /\ (engine.last.op = "command") => ActiveTrackerHeld

\* C37: once the watchers have handled the events of a window change, in
\* whichever order they were delivered, activeTracker is the tracker of the
\* editor that has the focus.
C37_BoundAfterBothEvents ==
    (/\ engine.last.op \in { "active", "visible" }
     /\ engine.pending = <<>>
     /\ engine.active # NoEditor) =>
        /\ engine.active \in DOMAIN engine.trackers
        /\ engine.activeTracker = engine.trackers[engine.active].tid

\* ------------------------------------------------------------------------
\* After a leap.

C39_OutsidePairsUndecorated ==
    /\ (last.op \in { "content", "selection", "escape", "configuration" })
            => last.leftDecorated = 0
    /\ \A i \in DOMAIN clusters :
           \A j \in DOMAIN clusters[i].recentlyRemovedDueToCursorMove :
               ~ clusters[i].recentlyRemovedDueToCursorMove[j].isDecorated

\* C39 witness: a content change has deleted a side of a tracked pair and
\* the pair, no longer in a list, is left undecorated.
C39_Witness ==
    /\ last.op = "content"
    /\ last.released > 0
    /\ last.leftDecorated = 0

\* ------------------------------------------------------------------------
\* Content change after an escape.

\* C40: an escape leaves the rescue buffer of every cluster empty, and the
\* content change that follows it brings back no pair constructed before:
\* every cluster then holds at most one pair, constructed by that content
\* change.
C40_NoRescueAfterEscape ==
    [][ /\ (last'.op = "escape") =>
               \A i \in DOMAIN clusters' :
                   clusters'[i].recentlyRemovedDueToCursorMove = <<>>
        /\ (last.op = "escape" /\ last'.op = "content") =>
               /\ last'.pending = {}
               /\ \A i \in DOMAIN clusters' :
                      /\ Len(clusters'[i].data) <= 1
                      /\ Ids(clusters'[i].data) \subseteq last'.created
                      /\ clusters'[i].recentlyRemovedDueToCursorMove = <<>>
      ]_vars

\* C40 witness: an escape came while a pair awaited rescue, and the content
\* change after it has constructed a pair, the only one held.
C40_Witness ==
    /\ last.op = "content"
    /\ last.escaped > 0
    /\ last.created # {}
    /\ ActiveIds(clusters) = last.created
    /\ PendingIds(clusters) = {}

====
